---- MODULE Spec2Model ----
(***************************************************************************)
(* Hybrid sentiment-analysis pipeline: tier routing, the governor-guarded  *)
(* remote analysis with cache / backoff / fallback, and the run            *)
(* orchestration (src/src/services.py, src/src/analysis.py, src/routers.py)*)
(***************************************************************************)
EXTENDS Integers, Sequences, FiniteSets, TLC

(***************************************************************************)
(* Bounds of the model                                                     *)
(***************************************************************************)
MaxItems == 2        \* longest batch the retriever returns in Spec
MaxIndex == 7        \* largest item index tried by the routing specification
MaxTotal == 3        \* largest batch-size argument tried by the routing specification
MaxDocs == 8         \* largest number of documents handed to a summary
MaxProducts == 3     \* longest product list handed to a comparison
MaxRecords == 3      \* most records in a drawn feed_items collection
MaxAspects == 52     \* most distinct aspect names in a drawn collection
MaxNews == 2         \* most Google News results with a snippet and a link

(***************************************************************************)
(* Program constants                                                       *)
(***************************************************************************)
MinLlmLength == 100          \* services.py:42   len(text) < 100
SampleEvery == 3             \* services.py:46   index % 3 == 0
max_tries == 3               \* analysis.py:200  backoff max_tries=3
DefaultMaxConcurrentLlm == 5 \* services.py:18   max_concurrent_llm: int = 5
SummaryMinDocs == 5          \* analysis.py:300  len(documents) > 5
WordCloudLimit == 50         \* database.py:194  {"$limit": 50}
HourMinutes == 60            \* database.py:37   timedelta(hours=1)
DayMinutes == 1440           \* database.py:41   timedelta(hours=24)
WeekMinutes == 10080         \* database.py:39   timedelta(days=7)

(***************************************************************************)
(* Texts.  A text is a string; it is kept as its leading characters        *)
(* (body) followed by `pad` blanks, so that len() and substring search are *)
(* those of the whole string.                                              *)
(***************************************************************************)
UpperChars == <<"A","B","C","D","E","F","G","H","I","J","K","L","M",
                "N","O","P","Q","R","S","T","U","V","W","X","Y","Z">>
LowerChars == <<"a","b","c","d","e","f","g","h","i","j","k","l","m",
                "n","o","p","q","r","s","t","u","v","w","x","y","z">>

\* str.lower() on one character
LowerChar(c) ==
    IF \E i \in 1..Len(UpperChars) : UpperChars[i] = c
    THEN LowerChars[CHOOSE i \in 1..Len(UpperChars) : UpperChars[i] = c]
    ELSE c

\* the characters of a text
Chars(t) == t.body \o [i \in 1..t.pad |-> " "]

\* len(text)
TextLen(t) == Len(Chars(t))

\* text.lower()
Lower(s) == [i \in 1..Len(s) |-> LowerChar(s[i])]

\* keyword in s   (Python substring test)
Contains(k, s) ==
    \E i \in 1..(Len(s) - Len(k) + 1) : SubSeq(s, i, i + Len(k) - 1) = k

aspect_keywords == {
    <<"b","a","t","t","e","r","y">>,
    <<"s","c","r","e","e","n">>,
    <<"p","e","r","f","o","r","m","a","n","c","e">>,
    <<"d","e","s","i","g","n">>,
    <<"p","r","i","c","e">>,
    <<"q","u","a","l","i","t","y">>,
    <<"d","u","r","a","b","i","l","i","t","y">>,
    <<"c","a","m","e","r","a">>,
    <<"s","o","f","t","w","a","r","e">>,
    <<"f","e","a","t","u","r","e","s">>,
    <<"s","u","p","p","o","r","t">> }

\* any(keyword in text.lower() for keyword in aspect_keywords)
HasAspectKeyword(t) ==
    \E chars \in {Chars(t)} : \E lowered \in {Lower(chars)} :
        \E k \in aspect_keywords : Contains(k, lowered)

\* mutant: the length floor is applied after the sampling rule
_should_use_llm_sample_first(t, index, total) ==
    IF index % SampleEvery = 0 THEN TRUE
    ELSE IF TextLen(t) < MinLlmLength THEN FALSE
    ELSE HasAspectKeyword(t)

\* mutant: the sampling rule is missing
_should_use_llm_keyword_only(t, index, total) ==
    IF TextLen(t) < MinLlmLength THEN FALSE
    ELSE HasAspectKeyword(t)

\* mutant: keyword match without lower-casing
_should_use_llm_case_sensitive(t, index, total) ==
    IF TextLen(t) < MinLlmLength THEN FALSE
    ELSE IF index % SampleEvery = 0 THEN TRUE
    ELSE \E k \in aspect_keywords : Contains(k, Chars(t))

\* AnalysisPipeline._should_use_llm
_should_use_llm(t, index, total) ==
    IF TextLen(t) < MinLlmLength THEN FALSE
    ELSE IF index % SampleEvery = 0 THEN TRUE
    ELSE IF HasAspectKeyword(t) THEN TRUE
    ELSE FALSE

(***************************************************************************)
(* Texts used as inputs                                                    *)
(***************************************************************************)
SurrogateChar == "U+D83D"    \* a lone surrogate code point, not encodable as UTF-8

BodyEmpty == << >>
BodyGreat == <<"g","r","e","a","t">>
BodyBatter == <<"b","a","t","t","e","r">>
BodyBattery == <<"B","a","t","t","e","r","y">>
BodyCamera == <<"C","A","M","E","R","A">>
BodySupports == <<"s","u","p","p","o","r","t","s">>
BodySurrogate == <<"o","k",SurrogateChar>>

\* bodies that contain an aspect keyword once lower-cased / bodies that do not
KeywordBodies == {BodyBattery, BodyCamera, BodySupports}
PlainBodies == {BodyEmpty, BodyGreat, BodyBatter}

RoutePads == {0, 92, 93, 94, 95, 120}
RouteTexts == [body : KeywordBodies \cup PlainBodies, pad : RoutePads]

EmptyText == [body |-> BodyEmpty, pad |-> 0]
ShortKeywordText == [body |-> BodyBattery, pad |-> 0]
LongKeywordText == [body |-> BodyBattery, pad |-> 100]
LongPlainText == [body |-> BodyGreat, pad |-> 100]
LongSurrogateText == [body |-> BodySurrogate, pad |-> 100]

(***************************************************************************)
(* Local Sentiment Engine (TransformersAnalysis)                           *)
(***************************************************************************)
\* what the underlying classifier pipeline does on one call
NativePositive == [raises |-> FALSE, label |-> "positive", score |-> 90]
NativeRaises == [raises |-> TRUE, label |-> "", score |-> 0]
NativeNeutral == [raises |-> FALSE, label |-> "neutral", score |-> 80]

\* str.lower() on a classifier label
LowerLabel(l) ==
    CASE l = "LABEL_0" -> "label_0"
      [] l = "LABEL_1" -> "label_1"
      [] l = "LABEL_2" -> "label_2"
      [] OTHER -> l

label_map == [positive |-> "positive", negative |-> "negative", netural |-> "netural",
              label_0 |-> "negative", label_1 |-> "neutral", label_2 |-> "positive"]

\* dict.get(key, default)
Get(d, k, default) == IF k \in DOMAIN d THEN d[k] ELSE default

\* TransformersAnalysis.analyze_sentiment; scores are in hundredths
analyze_sentiment(native) ==
    IF native.raises
    THEN [label |-> "netural", score |-> 50]
    ELSE [label |-> Get(label_map, LowerLabel(native.label), "neutral"),
          score |-> native.score]

basic_emotion_map == [positive |-> <<"satisfaction", "joy">>,
                      negative |-> <<"frustration", "disappointment">>,
                      neutral |-> <<"neutral">>]

\* mutant: the local analysis names the whole text as an aspect
basic_analysis_with_aspect(native) ==
    [sentiment |-> analyze_sentiment(native).label,
     score |-> analyze_sentiment(native).score,
     emotions |-> <<"neutral">>,
     intent |-> "feedback",
     aspects |-> <<[aspect |-> "text", sentiment |-> analyze_sentiment(native).label,
                   quote |-> ""]>>]

\* TransformersAnalysis.basic_analysis
basic_analysis(native) ==
    LET sentiment_data == analyze_sentiment(native)
    IN  [sentiment |-> sentiment_data.label,
         score |-> sentiment_data.score,
         emotions |-> Get(basic_emotion_map, sentiment_data.label, <<"neutral">>),
         intent |-> "feedback",
         aspects |-> << >>]

(***************************************************************************)
(* Remote Reasoning Engine (GroqAnalysis)                                  *)
(***************************************************************************)
\* text.encode('utf-8') raises on a lone surrogate
EncodeRaises(t) == \E i \in 1..Len(Chars(t)) : Chars(t)[i] = SurrogateChar

\* GroqAnalysis._get_cache_key: SHA-256 of the encoded text, taken as
\* collision free: one key per distinct string
_get_cache_key(t) == [sha256 |-> Chars(t)]

\* payloads of a chat completion
PayloadAspects == [parses |-> TRUE,
                   data |-> [aspects |-> << [aspect |-> "battery",
                                             sentiment |-> "negative",
                                             quote |-> "drains fast"] >>]]
PayloadNotJson == [parses |-> FALSE, data |-> [aspects |-> << >>]]
PayloadMissingQuote == [parses |-> TRUE,
                        data |-> [aspects |-> << [aspect |-> "battery",
                                                  sentiment |-> "negative"] >>]]

\* outcome of one client.chat.completions.create call
AttemptRateLimit == [error |-> "rate_limit", payload |-> PayloadNotJson]
AttemptApiError == [error |-> "api_error", payload |-> PayloadNotJson]
AttemptOk(p) == [error |-> "none", payload |-> p]

PipelinePayloads == {PayloadAspects, PayloadNotJson}
PipelineAttempts == {AttemptRateLimit, AttemptApiError} \cup {AttemptOk(p) : p \in PipelinePayloads}
PipelineNatives == {NativePositive, NativeRaises}

\* body of extract_aspects_with_llm after the completion returned:
\* eval(response_text), then one AspectSentiment per entry of data["aspects"]
ParseAspects(p) ==
    IF ~p.parses THEN [raised |-> TRUE, aspects |-> << >>]
    ELSE LET entries == Get(p.data, "aspects", << >>)
         IN  [raised |-> FALSE,
              aspects |-> [k \in 1..Len(entries) |->
                              [aspect |-> Get(entries[k], "aspect", ""),
                               sentiment |-> Get(entries[k], "sentiment", "neutral"),
                               quote |-> Get(entries[k], "quote", "")]]]

hybrid_emotion_map == [positive |-> <<"satisfaction", "appreciation">>,
                       negative |-> <<"frustration", "concern">>,
                       neutral |-> <<"neutral">>]

\* step 3 of GroqAnalysis.analyze_text
CombineResult(sentiment_data, aspects) ==
    [sentiment |-> sentiment_data.label,
     score |-> sentiment_data.score,
     emotions |-> Get(hybrid_emotion_map, sentiment_data.label, <<"neutral">>),
     intent |-> "user_feedback",
     aspects |-> aspects]

(***************************************************************************)
(* State                                                                   *)
(***************************************************************************)
VARIABLES
    env,                     \* what the classifier and the remote service may answer
    max_concurrent_llm,      \* bound the pipeline was constructed with
    source_items,            \* what the retriever will return for the query
    phase,                   \* position of run(): idle, retrieve, analyze, persist, complete
    mode,                    \* mode argument of run()
    retrieved_items,         \* run(): retrieved_items
    next_start,              \* next item task the event loop starts (gather order)
    tasks,                   \* one record per item task of the run
    holding,                 \* item tasks inside `async with analysis_semaphore`
    sem_value,               \* free slots of analysis_semaphore
    sem_waiters,             \* FIFO of item tasks blocked in acquire()
    cache,                   \* GroqAnalysis._cache
    llm_call_count,
    transformer_call_count,
    requests,                \* history: requests sent to the remote service
    successful_records,      \* run(): successful_records
    saved,                   \* history: argument lists of save_feed_item
    run_return,              \* value returned by run()
    summary,                 \* one generate_structured_summary call
    route,                   \* one _should_use_llm call (routing specification)
    comparison,              \* one get_competitor_trends call
    store,                   \* the feed_items collection and one query on it
    retrieval,               \* one MultiAPIRetriever.retrieve call
    concurrent               \* two runs on one AnalysisPipeline instance

vars == <<env, max_concurrent_llm, source_items, phase, mode, retrieved_items, next_start,
          tasks, holding, sem_value, sem_waiters, cache, llm_call_count,
          transformer_call_count, requests, successful_records, saved, run_return,
          summary, route, comparison, store, retrieval, concurrent>>

Modes == {"hybrid", "transformers", "llm"}

None == [kind |-> "None"]
NoSentiment == [label |-> "", score |-> 0]

\* SentimentRecord(query, text, source, timestamp, analysis)
SentimentRecord(t, a) == [kind |-> "SentimentRecord", text |-> t, analysis |-> a]

\* item.get('text', '')
ItemText(item) == Get(item, "text", EmptyText)

\* mutant: an item without text is analysed like any other
NoTextNever(item) == FALSE

\* `if not text`: an item whose text is missing or empty is not analysed
NoText(item) == TextLen(ItemText(item)) = 0

\* a SentimentRecord validates its fields: an item whose timestamp is not a
\* point in time makes SentimentRecord(...) raise
RecordRaises(item) == Get(item, "timestamp", "now") = "invalid"

\* mutant: every mode creates the item tasks
ModeUsesTasksAlways(m) == TRUE

\* modes whose items are analysed by one concurrent task each
ModeUsesTasks(m) == m \in {"hybrid", "llm"}

PipelineItems == {[text |-> EmptyText], [source |-> "news"], [text |-> ShortKeywordText],
                  [text |-> LongKeywordText], [text |-> LongPlainText],
                  [text |-> LongSurrogateText]}

\* an item whose record cannot be built, among items whose records can
UnbuildableItem == [text |-> LongPlainText, timestamp |-> "invalid"]
FailureItems == {[text |-> ShortKeywordText], [text |-> LongKeywordText], UnbuildableItem}

\* all batches of at most n items
Batches(n) == UNION {[1..k -> PipelineItems] : k \in 0..n}

NewTask == [pc |-> "created", log |-> << >>, sentiment_data |-> NoSentiment,
            result |-> None, tier |-> "none", extract |-> "none",
            hit |-> FALSE, prior |-> {}, waited |-> FALSE, raised |-> {}]

IdleSummary == [pc |-> "idle", documents |-> 0, sentiment_context |-> "", log |-> << >>,
                result |-> None]
IdleStore == [pc |-> "idle", collection |-> << >>, query |-> "A", time_range |-> "24h",
              tie |-> TRUE, result |-> << >>]
IdleConcurrent == [pc |-> "idle", runs |-> << >>]
IdleRetrieval == [pc |-> "idle", keys |-> {}, news |-> 0, tasks |-> << >>, results |-> << >>,
                  final_data |-> << >>]
IdleComparison == [pc |-> "idle", products |-> << >>, time_range |-> "24h",
                   state |-> << >>, returned |-> << >>, completed |-> << >>,
                   result |-> << >>]
IdleRoute == [pc |-> "idle", text |-> EmptyText, index |-> 0, total |-> 0, decision |-> FALSE]

\* history kept per task: prior = the calls of analyze_text on the same text that
\* had returned when the task called it; waited = the task blocked in acquire()

\* the part of the state the item tasks work on
Cur == [tasks |-> tasks, holding |-> holding, sem_value |-> sem_value,
        sem_waiters |-> sem_waiters, cache |-> cache, llm_call_count |-> llm_call_count,
        transformer_call_count |-> transformer_call_count, requests |-> requests]

Set(S) ==
    /\ tasks' = S.tasks
    /\ holding' = S.holding
    /\ sem_value' = S.sem_value
    /\ sem_waiters' = S.sem_waiters
    /\ cache' = S.cache
    /\ llm_call_count' = S.llm_call_count
    /\ transformer_call_count' = S.transformer_call_count
    /\ requests' = S.requests

(***************************************************************************)
(* Concurrency Governor: asyncio.Semaphore(max_concurrent_llm)             *)
(***************************************************************************)
\* mutant: release() frees the slot without waking a queued task
ReleaseNoWake(S, i) == [S EXCEPT !.holding = @ \ {i}, !.sem_value = @ + 1]

\* Semaphore.release() on leaving `async with`: the slot goes to the first
\* waiter if there is one, otherwise back to the free slots
Release(S, i) ==
    IF S.sem_waiters # << >>
    THEN LET w == Head(S.sem_waiters)
         IN  [S EXCEPT !.holding = (@ \ {i}) \cup {w},
                       !.sem_waiters = Tail(@),
                       !.tasks[w].pc = "acquired"]
    ELSE [S EXCEPT !.holding = @ \ {i}, !.sem_value = @ + 1]

\* mutant: acquire() never blocks
CanAcquireAlways(S) == TRUE

\* Semaphore.acquire() fast path: not locked()
CanAcquire(S) == S.sem_value > 0 /\ S.sem_waiters = << >>

(***************************************************************************)
(* Item task: _analyze_with_hybrid_strategy                                *)
(***************************************************************************)
\* services.py 95-108: the local analysis is counted, then SentimentRecord(...)
\* raises; the error is logged and the item task returns None
LocalFails(S, i) ==
    [S EXCEPT !.tasks[i].pc = "done",
              !.tasks[i].raised = @ \cup {"local"},
              !.transformer_call_count = @ + 1]

\* services.py 95-105: Transformers-only analysis of the item
LocalAnalysis(S, i, native) ==
    IF RecordRaises(retrieved_items[i])
    THEN LocalFails(S, i)
    ELSE [S EXCEPT !.tasks[i].pc = "done",
                   !.tasks[i].result = SentimentRecord(ItemText(retrieved_items[i]),
                                                       basic_analysis(native)),
                   !.tasks[i].tier = "local",
                   !.transformer_call_count = @ + 1]

\* mutant: the fallback after a failed record runs with the slot still held
FinishRemoteKeepsSlot(S, i, analysis_result) ==
    IF RecordRaises(retrieved_items[i])
    THEN LocalFails([S EXCEPT !.tasks[i].raised = @ \cup {"remote"},
                              !.llm_call_count = @ + 1], i)
    ELSE Release([S EXCEPT !.tasks[i].pc = "done",
                           !.tasks[i].result = SentimentRecord(ItemText(retrieved_items[i]),
                                                               analysis_result),
                           !.tasks[i].tier = "remote",
                           !.llm_call_count = @ + 1], i)

\* mutant: only an analysis that sent a request is counted
FinishRemoteCountsRequests(S, i, analysis_result) ==
    IF RecordRaises(retrieved_items[i])
    THEN LocalFails(Release([S EXCEPT !.tasks[i].raised = @ \cup {"remote"},
                                      !.llm_call_count = IF S.tasks[i].hit THEN @ ELSE @ + 1],
                            i), i)
    ELSE Release([S EXCEPT !.tasks[i].pc = "done",
                           !.tasks[i].result = SentimentRecord(ItemText(retrieved_items[i]),
                                                               analysis_result),
                           !.tasks[i].tier = "remote",
                           !.llm_call_count = IF S.tasks[i].hit THEN @ ELSE @ + 1], i)

\* services.py 82-93: analyze_text returned; count, build the record, leave the
\* section. When SentimentRecord(...) raises, the error is logged, the section is
\* left and the fallback builds the record of the same item again
FinishRemote(S, i, analysis_result) ==
    IF RecordRaises(retrieved_items[i])
    THEN LocalFails(Release([S EXCEPT !.tasks[i].raised = @ \cup {"remote"},
                                      !.llm_call_count = @ + 1], i), i)
    ELSE Release([S EXCEPT !.tasks[i].pc = "done",
                           !.tasks[i].result = SentimentRecord(ItemText(retrieved_items[i]),
                                                               analysis_result),
                           !.tasks[i].tier = "remote",
                           !.llm_call_count = @ + 1], i)

\* services.py 92-105: analyze_text raised; log, leave the section, fall back
RemoteRaised(S, i, native) ==
    LocalAnalysis(Release([S EXCEPT !.tasks[i].extract = "raised",
                                    !.tasks[i].raised = @ \cup {"remote"}], i), i, native)

\* mutant: a result whose aspect extraction failed is not stored
CacheStoreOnlyOk(c, key, result, status) ==
    IF status = "ok"
    THEN [k \in DOMAIN c \cup {key} |-> IF k = key THEN result ELSE c[k]]
    ELSE c

\* mutant: an entry already present is kept (setdefault)
CacheStoreFirstWins(c, key, result, status) ==
    IF key \in DOMAIN c THEN c
    ELSE [k \in DOMAIN c \cup {key} |-> IF k = key THEN result ELSE c[k]]

\* analysis.py 280: self._cache[cache_key] = result
CacheStore(c, key, result, status) ==
    [k \in DOMAIN c \cup {key} |-> IF k = key THEN result ELSE c[k]]

\* mutant: a failed aspect extraction ends the item task without a record
CompleteAnalyzeDropsFailed(S, i, aspects, status) ==
    IF status = "ok"
    THEN FinishRemote([S EXCEPT !.tasks[i].extract = status], i,
                      CombineResult(S.tasks[i].sentiment_data, aspects))
    ELSE Release([S EXCEPT !.tasks[i].extract = status, !.tasks[i].pc = "done"], i)

\* analysis.py 264-281: combine, cache, return to the item task
CompleteAnalyze(S, i, aspects, status) ==
    LET text == ItemText(retrieved_items[i])
        result == CombineResult(S.tasks[i].sentiment_data, aspects)
    IN  FinishRemote([S EXCEPT !.tasks[i].extract = status,
                               !.cache = CacheStore(@, _get_cache_key(text), result, status)],
                     i, result)

\* mutant: every error is retried
ShouldRetryAnyError(log) ==
    log[Len(log)].error # "none" /\ Len(log) < max_tries

\* backoff.on_exception(backoff.expo, RateLimitError, max_tries=3): after a
\* failed attempt, sleep and call again iff it was a rate limit and tries remain
ShouldRetry(log) ==
    log[Len(log)].error = "rate_limit" /\ Len(log) < max_tries

\* mutant: the slot is given back for the time of the backoff sleep
AttemptReleasesDuringBackoff(S, i, out) ==
    LET log == Append(S.tasks[i].log, out)
        S1 == [S EXCEPT !.tasks[i].log = log,
                        !.requests = @ \cup {[purpose |-> "aspects", task |-> i,
                                              held |-> i \in S.holding]}]
    IN  IF ShouldRetry(log) THEN [Release(S1, i) EXCEPT !.tasks[i].pc = "backoff"]
        ELSE IF out.error # "none" THEN CompleteAnalyze(S1, i, << >>, out.error)
        ELSE LET parsed == ParseAspects(out.payload)
             IN  IF parsed.raised THEN CompleteAnalyze(S1, i, << >>, "malformed")
                 ELSE CompleteAnalyze(S1, i, parsed.aspects, "ok")

\* one attempt of _get_chat_completion made by extract_aspects_with_llm, and what
\* follows it up to the next suspension of the task
Attempt(S, i, out) ==
    LET log == Append(S.tasks[i].log, out)
        S1 == [S EXCEPT !.tasks[i].log = log,
                        !.requests = @ \cup {[purpose |-> "aspects", task |-> i,
                                              held |-> i \in S.holding]}]
    IN  IF ShouldRetry(log) THEN [S1 EXCEPT !.tasks[i].pc = "backoff"]
        ELSE IF out.error # "none" THEN CompleteAnalyze(S1, i, << >>, out.error)
        ELSE LET parsed == ParseAspects(out.payload)
             IN  IF parsed.raised THEN CompleteAnalyze(S1, i, << >>, "malformed")
                 ELSE CompleteAnalyze(S1, i, parsed.aspects, "ok")

\* mutant: the cache is never consulted
CacheHitNever(c, key) == FALSE

\* analysis.py 247: cache_key in self._cache
CacheHit(c, key) == key \in DOMAIN c

\* GroqAnalysis.analyze_text called inside the guarded section (the client is
\* always constructed: the api key is a literal), up to the task's next suspension
AnalyzeText(S, i, native, out) ==
    LET text == ItemText(retrieved_items[i])
        key == _get_cache_key(text)
        S0 == [S EXCEPT !.tasks[i].prior =
                   {j \in DOMAIN S.tasks : /\ S.tasks[j].pc = "done"
                                            /\ S.tasks[j].tier = "remote"
                                            /\ ItemText(retrieved_items[j]) = text}]
    IN  IF EncodeRaises(text) THEN RemoteRaised(S0, i, native)
        ELSE IF CacheHit(S0.cache, key)
             THEN FinishRemote([S0 EXCEPT !.tasks[i].hit = TRUE], i, S0.cache[key])
             ELSE Attempt([S0 EXCEPT !.tasks[i].sentiment_data = analyze_sentiment(native)],
                          i, out)

\* the slot is taken on the fast path of acquire()
Acquire(S, i) == [S EXCEPT !.sem_value = @ - 1, !.holding = @ \cup {i}]

\* acquire() blocks: the task queues behind the other waiters
Wait(S, i) == [S EXCEPT !.sem_waiters = Append(@, i), !.tasks[i].pc = "acquire",
                         !.tasks[i].waited = TRUE]

RunUnchanged == UNCHANGED <<env, max_concurrent_llm, source_items, phase, mode, retrieved_items,
                            successful_records, saved, run_return, summary, route, comparison, store, retrieval, concurrent>>

\* first step of item task i (index i - 1): from its creation by gather to its
\* first suspension or its end
TaskStart(i) ==
    /\ phase = "analyze"
    /\ ModeUsesTasks(mode)
    /\ i = next_start
    /\ i <= Len(retrieved_items)
    /\ tasks[i].pc = "created"
    /\ next_start' = i + 1
    /\ LET text == ItemText(retrieved_items[i])
       IN  IF NoText(retrieved_items[i])
           THEN Set([Cur EXCEPT !.tasks[i].pc = "done"])
           ELSE IF ~_should_use_llm(text, i - 1, Len(retrieved_items))
           THEN \E native \in env.natives : Set(LocalAnalysis(Cur, i, native))
           ELSE IF CanAcquire(Cur)
           THEN \E native \in env.natives, out \in env.attempts :
                    Set(AnalyzeText(Acquire(Cur, i), i, native, out))
           ELSE Set(Wait(Cur, i))
    /\ RunUnchanged

\* a task that was handed a slot by release() resumes inside the section
TaskResume(i) ==
    /\ phase = "analyze"
    /\ i \in DOMAIN tasks
    /\ tasks[i].pc = "acquired"
    /\ \E native \in env.natives, out \in env.attempts :
           Set(AnalyzeText(Cur, i, native, out))
    /\ UNCHANGED next_start
    /\ RunUnchanged

\* mutant: the backoff sleep blocks the event loop (time.sleep): a task that
\* went to sleep later cannot go on before the earlier sleeper has woken
BackoffWakeBlockedBySleep(i) ==
    /\ phase = "analyze"
    /\ i \in DOMAIN tasks
    /\ tasks[i].pc = "backoff"
    /\ \A k \in 1..(i - 1) : tasks[k].pc # "backoff"
    /\ \E out \in env.attempts : Set(Attempt(Cur, i, out))
    /\ UNCHANGED next_start
    /\ RunUnchanged

\* the backoff sleep of task i ends and _get_chat_completion is tried again
BackoffWake(i) ==
    /\ phase = "analyze"
    /\ i \in DOMAIN tasks
    /\ tasks[i].pc = "backoff"
    /\ \E out \in env.attempts : Set(Attempt(Cur, i, out))
    /\ UNCHANGED next_start
    /\ RunUnchanged

(***************************************************************************)
(* Pipeline Orchestrator: AnalysisPipeline.run                             *)
(***************************************************************************)
\* AnalysisPipeline._build_stats; percentages rounded down to an integer
_build_stats(n_saved, total, m) ==
    [query |-> "N/A", mode |-> m, items_retrieved |-> total, items_saved |-> n_saved,
     success_rate |-> IF total > 0 THEN (n_saved * 100) \div total ELSE 0,
     llm_calls |-> llm_call_count,
     transformer_calls |-> transformer_call_count,
     llm_reduction |-> IF total > 0 THEN 100 - ((llm_call_count * 100) \div total) ELSE 0]

\* run() up to the await of the retriever: the counters are reset
StartRun(m) ==
    /\ phase = "idle"
    /\ m \in env.modes
    /\ mode' = m
    /\ llm_call_count' = 0
    /\ transformer_call_count' = 0
    /\ phase' = "retrieve"
    /\ UNCHANGED <<env, max_concurrent_llm, source_items, retrieved_items, next_start, tasks,
                   holding, sem_value, sem_waiters, cache, requests, successful_records,
                   saved, run_return, summary, route, comparison, store, retrieval, concurrent>>

\* mutant: an empty batch is analysed and persisted like any other
RetrieveNoShortCircuit ==
    /\ phase = "retrieve"
    /\ retrieved_items' = source_items
    /\ tasks' = [i \in 1..Len(source_items) |-> NewTask]
    /\ next_start' = 1
    /\ phase' = "analyze"
    /\ UNCHANGED <<env, max_concurrent_llm, source_items, mode, holding, sem_value, sem_waiters,
                   cache, llm_call_count, transformer_call_count, requests,
                   successful_records, saved, run_return, summary, route, comparison, store, retrieval, concurrent>>

\* the retriever returns; an empty batch ends the run with zero statistics,
\* otherwise gather creates one task per item
Retrieve ==
    /\ phase = "retrieve"
    /\ retrieved_items' = source_items
    /\ IF source_items = << >>
       THEN /\ run_return' = _build_stats(0, 0, mode)
            /\ phase' = "complete"
            /\ UNCHANGED <<tasks, next_start>>
       ELSE /\ tasks' = [i \in 1..Len(source_items) |-> NewTask]
            /\ next_start' = 1
            /\ phase' = "analyze"
            /\ UNCHANGED run_return
    /\ UNCHANGED <<env, max_concurrent_llm, source_items, mode, holding, sem_value, sem_waiters,
                   cache, llm_call_count, transformer_call_count, requests,
                   successful_records, saved, summary, route, comparison, store, retrieval, concurrent>>

\* mutant: the first failed item task ends the run without any record
RecordsAbortOnFailure(ts, n) ==
    IF \E i \in 1..n : ts[i].raised # {} THEN << >>
    ELSE SelectSeq([i \in 1..n |-> ts[i].result], LAMBDA r : r.kind = "SentimentRecord")

\* the sequence of the records among the task results, in item order
RECURSIVE Records(_, _)
Records(ts, n) ==
    IF n = 0 THEN << >>
    ELSE IF ts[n].result.kind = "SentimentRecord"
         THEN Append(Records(ts, n - 1), ts[n].result)
         ELSE Records(ts, n - 1)

\* mode 'transformers': _batch_analyze_transformers, a loop without suspension
BatchAnalyzeTransformers ==
    /\ phase = "analyze"
    /\ mode = "transformers"
    /\ \E natives \in [DOMAIN tasks -> env.natives] :
         LET failed == {i \in DOMAIN tasks : /\ ~NoText(retrieved_items[i])
                                                /\ RecordRaises(retrieved_items[i])}
             analysed == {i \in DOMAIN tasks : /\ ~NoText(retrieved_items[i])
                                                  /\ ~RecordRaises(retrieved_items[i])}
             done == [i \in DOMAIN tasks |->
                        IF i \in failed
                        THEN [tasks[i] EXCEPT !.pc = "done", !.raised = {"local"}]
                        ELSE IF i \in analysed
                        THEN [tasks[i] EXCEPT !.pc = "done", !.tier = "local",
                                  !.result = SentimentRecord(ItemText(retrieved_items[i]),
                                                             basic_analysis(natives[i]))]
                        ELSE [tasks[i] EXCEPT !.pc = "done"]]
         IN  /\ tasks' = done
             /\ transformer_call_count' = transformer_call_count + Cardinality(analysed)
             /\ successful_records' = Records(done, Len(retrieved_items))
    /\ next_start' = Len(retrieved_items) + 1
    /\ phase' = "persist"
    /\ UNCHANGED <<env, max_concurrent_llm, source_items, mode, retrieved_items, holding,
                   sem_value, sem_waiters, cache, llm_call_count, requests, saved,
                   run_return, summary, route, comparison, store, retrieval, concurrent>>

\* mutant: gather returns without waiting for the item tasks
GatherEarly ==
    /\ phase = "analyze"
    /\ ModeUsesTasks(mode)
    /\ successful_records' = Records(tasks, Len(retrieved_items))
    /\ phase' = "persist"
    /\ UNCHANGED <<env, max_concurrent_llm, source_items, mode, retrieved_items, next_start,
                   tasks, holding, sem_value, sem_waiters, cache, llm_call_count,
                   transformer_call_count, requests, saved, run_return, summary, route, comparison, store, retrieval, concurrent>>

\* modes 'hybrid' and 'llm': gather returns once every item task has ended
Gather ==
    /\ phase = "analyze"
    /\ ModeUsesTasks(mode)
    /\ \A i \in DOMAIN tasks : tasks[i].pc = "done"
    /\ successful_records' = Records(tasks, Len(retrieved_items))
    /\ phase' = "persist"
    /\ UNCHANGED <<env, max_concurrent_llm, source_items, mode, retrieved_items, next_start,
                   tasks, holding, sem_value, sem_waiters, cache, llm_call_count,
                   transformer_call_count, requests, saved, run_return, summary, route, comparison, store, retrieval, concurrent>>

\* mutant: a failed bulk insert is raised to the caller
save_feed_item_raises(db, items, insert_fails) ==
    IF items = << >> THEN db
    ELSE IF insert_fails THEN [db EXCEPT !.pc = "raised"]
    ELSE [db EXCEPT !.pc = "inserted", !.collection = @ \o items]

\* MongoManager.save_feed_item: nothing to do for an empty list; otherwise one
\* insert_many, and any exception of it is logged and swallowed
save_feed_item(db, items, insert_fails) ==
    IF items = << >> THEN db
    ELSE IF insert_fails THEN [db EXCEPT !.pc = "error_logged"]
    ELSE [db EXCEPT !.pc = "inserted", !.collection = @ \o items]

\* step 3 of run(): save the records if there are any; run() then ends
\* without a return statement
Persist ==
    /\ phase = "persist"
    /\ saved' = IF successful_records # << >> THEN Append(saved, successful_records)
                ELSE saved
    /\ \E insert_fails \in BOOLEAN :
           LET db == IF successful_records # << >>
                     THEN save_feed_item(store, successful_records, insert_fails)
                     ELSE store
           IN  /\ store' = db
               /\ phase' = IF db.pc = "raised" THEN "raised" ELSE "complete"
    /\ run_return' = None
    /\ UNCHANGED <<env, max_concurrent_llm, source_items, mode, retrieved_items, next_start,
                   tasks, holding, sem_value, sem_waiters, cache, llm_call_count,
                   transformer_call_count, requests, successful_records, summary, route,
                   comparison, retrieval, concurrent>>

(***************************************************************************)
(* Structured summary: GroqAnalysis.generate_structured_summary            *)
(***************************************************************************)
PayloadSummary == [parses |-> TRUE,
                   data |-> [overview |-> "o", keyInsights |-> <<"k">>,
                             overallSentiment |-> "neutral"]]
SummaryAttempts == {AttemptRateLimit, AttemptApiError, AttemptOk(PayloadSummary),
                    AttemptOk(PayloadNotJson)}
SummaryContexts == {"positive", "negative", "neutral"}

\* SummaryData.model_validate_json(response_text)
SummaryValidates(p) ==
    p.parses /\ {"overview", "keyInsights", "overallSentiment"} \subseteq DOMAIN p.data

\* analysis.py 315-319: the basic summary
FallbackSummary(n, ctx) ==
    [kind |-> "SummaryData", overview |-> "transformer_summary",
     keyInsights |-> <<n>>, overallSentiment |-> ctx]

\* one attempt of _get_chat_completion made by generate_structured_summary; the
\* caller is not an item task (task 0)
SummaryAttempt(out) ==
    LET log == Append(summary.log, out)
    IN  /\ requests' = requests \cup {[purpose |-> "summary", task |-> 0,
                                       held |-> 0 \in holding]}
        /\ summary' =
             IF ShouldRetry(log) THEN [summary EXCEPT !.log = log, !.pc = "backoff"]
             ELSE IF out.error = "none" /\ SummaryValidates(out.payload)
             THEN [summary EXCEPT !.log = log, !.pc = "done",
                       !.result = [kind |-> "SummaryData",
                                   overview |-> out.payload.data.overview,
                                   keyInsights |-> out.payload.data.keyInsights,
                                   overallSentiment |-> out.payload.data.overallSentiment]]
             ELSE [summary EXCEPT !.log = log, !.pc = "done",
                       !.result = FallbackSummary(summary.documents,
                                                  summary.sentiment_context)]

SummaryUnchanged == UNCHANGED <<env, max_concurrent_llm, source_items, phase, mode,
                                retrieved_items, next_start, tasks, holding, sem_value,
                                sem_waiters, cache, llm_call_count, transformer_call_count,
                                successful_records, saved, run_return, route, comparison, store, retrieval, concurrent>>

\* generate_structured_summary(documents, sentiment_context) with n documents,
\* called by get_summary or run_with_summary
SummaryCall(n, ctx) ==
    /\ summary.pc = "call"
    /\ n = summary.documents
    /\ ctx = summary.sentiment_context
    /\ IF n = 0
       THEN /\ summary' = [summary EXCEPT !.pc = "done",
                               !.result = [kind |-> "SummaryData",
                                           overview |-> "No documents available for summary.",
                                           keyInsights |-> << >>,
                                           overallSentiment |-> "neutral"]]
            /\ UNCHANGED requests
       ELSE IF n > SummaryMinDocs
       THEN \E out \in SummaryAttempts :
              LET called == [summary EXCEPT !.documents = n, !.sentiment_context = ctx]
              IN  /\ requests' = requests \cup {[purpose |-> "summary", task |-> 0,
                                                 held |-> 0 \in holding]}
                  /\ summary' =
                       LET log == <<out>>
                       IN  IF ShouldRetry(log) THEN [called EXCEPT !.log = log, !.pc = "backoff"]
                           ELSE IF out.error = "none" /\ SummaryValidates(out.payload)
                           THEN [called EXCEPT !.log = log, !.pc = "done",
                                   !.result = [kind |-> "SummaryData",
                                       overview |-> out.payload.data.overview,
                                       keyInsights |-> out.payload.data.keyInsights,
                                       overallSentiment |-> out.payload.data.overallSentiment]]
                           ELSE [called EXCEPT !.log = log, !.pc = "done",
                                   !.result = FallbackSummary(n, ctx)]
       ELSE /\ summary' = [summary EXCEPT !.documents = n, !.sentiment_context = ctx,
                               !.pc = "done", !.result = FallbackSummary(n, ctx)]
            /\ UNCHANGED requests
    /\ SummaryUnchanged

\* the backoff sleep of the summary call ends
SummaryWake ==
    /\ summary.pc = "backoff"
    /\ \E out \in SummaryAttempts : SummaryAttempt(out)
    /\ SummaryUnchanged

(***************************************************************************)
(* Specifications                                                          *)
(***************************************************************************)
ConcurrencyChoices == {1, 2}

FullEnv == [natives |-> PipelineNatives, attempts |-> PipelineAttempts, modes |-> Modes]

\* a remote service that only answers or rate-limits, and a classifier that works
BurstEnv == [natives |-> {NativePositive},
             attempts |-> {AttemptRateLimit, AttemptOk(PayloadAspects)},
             modes |-> {"llm"}]

\* a classifier that works, any remote answer, the default mode
ScenarioEnv == [natives |-> {NativePositive}, attempts |-> PipelineAttempts,
                modes |-> {"hybrid"}]

\* a classifier that works and a remote service that answers, in every mode
FailureEnv == [natives |-> {NativePositive},
               attempts |-> {AttemptOk(PayloadAspects), AttemptOk(PayloadNotJson),
                             AttemptOk(PayloadMissingQuote)},
               modes |-> Modes]

\* more remote-routed items than the default bound has slots
BurstBatch == [i \in 1..(DefaultMaxConcurrentLlm + 1) |-> [text |-> LongKeywordText]]

\* nine items, the three at indices 0, 3 and 6 long, the others short
ScenarioBatch == [i \in 1..9 |-> IF (i - 1) % 3 = 0 THEN [text |-> LongPlainText]
                                  ELSE [text |-> ShortKeywordText]]

InitPipeline(e, bound, batch) ==
    /\ env = e
    /\ max_concurrent_llm = bound
    /\ source_items = batch
    /\ phase = "idle"
    /\ mode = "hybrid"
    /\ retrieved_items = << >>
    /\ next_start = 1
    /\ tasks = << >>
    /\ holding = {}
    /\ sem_value = bound
    /\ sem_waiters = << >>
    /\ cache = << >>
    /\ llm_call_count = 0
    /\ transformer_call_count = 0
    /\ requests = {}
    /\ successful_records = << >>
    /\ saved = << >>
    /\ run_return = None

Init ==
    /\ \/ \E bound \in ConcurrencyChoices, batch \in Batches(MaxItems) :
              InitPipeline(FullEnv, bound, batch)
       \/ InitPipeline(BurstEnv, DefaultMaxConcurrentLlm, BurstBatch)
       \/ InitPipeline(ScenarioEnv, DefaultMaxConcurrentLlm, ScenarioBatch)
       \/ \E bound \in ConcurrencyChoices, k \in 1..MaxItems :
              \E batch \in [1..k -> FailureItems] : InitPipeline(FailureEnv, bound, batch)
    /\ summary = IdleSummary
    /\ route = IdleRoute
    /\ comparison = IdleComparison
    /\ store = IdleStore
    /\ retrieval = IdleRetrieval
    /\ concurrent = IdleConcurrent

Next ==
    \/ \E m \in Modes : StartRun(m)
    \/ Retrieve
    \/ \E i \in 1..Len(retrieved_items) : TaskStart(i)
    \/ \E i \in 1..Len(retrieved_items) : TaskResume(i)
    \/ \E i \in 1..Len(retrieved_items) : BackoffWake(i)
    \/ BatchAnalyzeTransformers
    \/ Gather
    \/ Persist

Spec == Init /\ [][Next]_vars

\* the event loop runs a ready coroutine, and every awaited call (retriever,
\* classifier, remote request, backoff sleep, bulk insert) returns or raises
\* runs of every mode over items routed remote, routed local and unbuildable,
\* with a remote service that answers, rate-limits or fails
InitFair ==
    /\ \E bound \in ConcurrencyChoices, k \in 1..MaxItems :
           \E batch \in [1..k -> FailureItems] :
               InitPipeline([natives |-> {NativePositive},
                             attempts |-> {AttemptRateLimit, AttemptApiError,
                                           AttemptOk(PayloadAspects)},
                             modes |-> Modes], bound, batch)
    /\ summary = IdleSummary
    /\ route = IdleRoute
    /\ comparison = IdleComparison
    /\ store = IdleStore
    /\ retrieval = IdleRetrieval
    /\ concurrent = IdleConcurrent

SpecFair == InitFair /\ [][Next]_vars /\ WF_vars(Next)

\* mutant: clear_cache drops the entries of failed extractions only
clear_cache_failed_only(c) ==
    [k \in {key \in DOMAIN c : c[key].aspects # << >>} |-> c[k]]

\* GroqAnalysis.clear_cache: self._cache.clear()
clear_cache(c) == << >>

\* clear_cache is public and called by no code of the repository: a caller may
\* invoke it between any two steps of a run
ClearCache ==
    /\ cache # << >>
    /\ cache' = clear_cache(cache)
    /\ UNCHANGED <<env, max_concurrent_llm, source_items, phase, mode, retrieved_items,
                   next_start, tasks, holding, sem_value, sem_waiters, llm_call_count,
                   transformer_call_count, requests, successful_records, saved, run_return,
                   summary, route, comparison, store, retrieval, concurrent>>

NextCache == Next \/ ClearCache

SpecCache == InitFair /\ [][NextCache]_vars

\* routing specification: one call of _should_use_llm on drawn arguments
InitRoute ==
    /\ InitPipeline(FullEnv, DefaultMaxConcurrentLlm, << >>)
    /\ summary = IdleSummary
    /\ comparison = IdleComparison
    /\ store = IdleStore
    /\ retrieval = IdleRetrieval
    /\ concurrent = IdleConcurrent
    /\ route \in [pc : {"call"}, text : RouteTexts, index : 0..MaxIndex,
                  total : 1..MaxTotal, decision : {FALSE}]

RouteCall ==
    /\ route.pc = "call"
    /\ route' = [route EXCEPT !.pc = "returned",
                     !.decision = _should_use_llm(route.text, route.index, route.total)]
    /\ UNCHANGED <<env, max_concurrent_llm, source_items, phase, mode, retrieved_items,
                   next_start, tasks, holding, sem_value, sem_waiters, cache,
                   llm_call_count, transformer_call_count, requests, successful_records,
                   saved, run_return, summary, comparison, store, retrieval, concurrent>>

NextRoute == RouteCall

SpecRoute == InitRoute /\ [][NextRoute]_vars

\* summary specification: one generate_structured_summary call on drawn
\* arguments, made by get_summary or run_with_summary while no run is active
InitSummary ==
    /\ InitPipeline(FullEnv, DefaultMaxConcurrentLlm, << >>)
    /\ route = IdleRoute
    /\ comparison = IdleComparison
    /\ store = IdleStore
    /\ retrieval = IdleRetrieval
    /\ concurrent = IdleConcurrent
    /\ \E n \in 0..MaxDocs, ctx \in SummaryContexts :
           summary = [IdleSummary EXCEPT !.pc = "call", !.documents = n,
                                         !.sentiment_context = ctx]

NextSummary ==
    \/ \E n \in 0..MaxDocs, ctx \in SummaryContexts : SummaryCall(n, ctx)
    \/ SummaryWake

SpecSummary == InitSummary /\ [][NextSummary]_vars

(***************************************************************************)
(* Retrieval: MultiAPIRetriever.retrieve                                   *)
(***************************************************************************)
\* the sources whose credentials may be set in the environment
Credentials == {"Reddit", "Twitter", "YouTube", "Google News", "WebApp"}

\* what a search or scrape task can end with: a list with an item of its
\* source, the empty list (no client, or an error caught inside the scraper),
\* or an exception that leaves the task
TaskOutcomes(r, source) ==
    IF source \in r.keys
    THEN {[status |-> "list", items |-> <<source>>], [status |-> "list", items |-> << >>],
          [status |-> "exception", items |-> << >>]}
    ELSE {[status |-> "list", items |-> << >>]}

RetrieveUnchanged == UNCHANGED <<env, max_concurrent_llm, source_items, phase, mode,
                                 retrieved_items, next_start, tasks, holding, sem_value,
                                 sem_waiters, cache, llm_call_count, transformer_call_count,
                                 requests, successful_records, saved, run_return, summary,
                                 route, comparison, store, concurrent>>

\* retrieve() up to the return of the Google News search: the three scrapers
\* are created, then one scrape task per result. self.firecrawl builds the
\* FirecrawlScraper on first use, which raises ValueError without an API key;
\* that happens before the try block
GoogleNewsReturns(n) ==
    /\ retrieval.pc = "call"
    /\ n \in 0..MaxNews
    /\ "Google News" \notin retrieval.keys => n = 0
    /\ LET scrapers == <<"Reddit", "Twitter", "YouTube">>
           all_tasks == scrapers \o [k \in 1..n |-> "WebApp"]
       IN  retrieval' =
               IF n > 0 /\ "WebApp" \notin retrieval.keys
               THEN [retrieval EXCEPT !.pc = "raised", !.news = n]
               ELSE [retrieval EXCEPT !.pc = "gather", !.news = n, !.tasks = all_tasks,
                                      !.results = [t \in 1..Len(all_tasks) |->
                                                      [status |-> "pending", items |-> << >>]]]
    /\ RetrieveUnchanged

\* one of the gathered tasks ends, in any order
TaskCompletes(t) ==
    /\ retrieval.pc = "gather"
    /\ t \in DOMAIN retrieval.results
    /\ retrieval.results[t].status = "pending"
    /\ \E outcome \in TaskOutcomes(retrieval, retrieval.tasks[t]) :
           retrieval' = [retrieval EXCEPT !.results[t] = outcome]
    /\ RetrieveUnchanged

\* gather(return_exceptions=True) returns: the lists are appended to the
\* Google News items in task order, exceptions are logged
RECURSIVE Extend(_, _)
Extend(results, n) ==
    IF n = 0 THEN << >>
    ELSE Extend(results, n - 1)
         \o (IF results[n].status = "list" THEN results[n].items ELSE << >>)

GatherReturns ==
    /\ retrieval.pc = "gather"
    /\ \A t \in DOMAIN retrieval.results : retrieval.results[t].status # "pending"
    /\ retrieval' = [retrieval EXCEPT
                         !.pc = "returned",
                         !.final_data = [k \in 1..retrieval.news |-> "Google News"]
                                        \o Extend(retrieval.results, Len(retrieval.results))]
    /\ RetrieveUnchanged

InitRetrieve ==
    /\ InitPipeline(FullEnv, DefaultMaxConcurrentLlm, << >>)
    /\ summary = IdleSummary
    /\ route = IdleRoute
    /\ comparison = IdleComparison
    /\ store = IdleStore
    /\ concurrent = IdleConcurrent
    /\ \E keys \in SUBSET Credentials :
           retrieval = [IdleRetrieval EXCEPT !.pc = "call", !.keys = keys]

NextRetrieve ==
    \/ \E n \in 0..MaxNews : GoogleNewsReturns(n)
    \/ \E t \in 1..(3 + MaxNews) : TaskCompletes(t)
    \/ GatherReturns

SpecRetrieve == InitRetrieve /\ [][NextRetrieve]_vars

(***************************************************************************)
(* Storage: the aggregations of MongoManager                               *)
(***************************************************************************)
\* timestamps are minutes; the clock reads Now during the query
Now == 3002

\* get_time_range_filter: {"timestamp": {"$gte": start_time}}
get_time_range_filter(time_range) ==
    IF time_range = "1h" THEN Now - HourMinutes
    ELSE IF time_range = "7d" THEN Now - WeekMinutes
    ELSE Now - DayMinutes

\* {"$match": {"query": query, **time_filter}}: positions of the matching documents
Match(collection, query, time_range) ==
    {i \in 1..Len(collection) : /\ collection[i].query = query
                                /\ collection[i].timestamp >= get_time_range_filter(time_range)}

\* $dateToString with date_format: the minute for '1h', the hour otherwise
TimeBucket(timestamp, time_range) ==
    IF time_range = "1h"
    THEN [hour |-> timestamp \div HourMinutes, minute |-> timestamp % HourMinutes]
    ELSE [hour |-> timestamp \div HourMinutes, minute |-> 0]

\* mutant: buckets sorted descending
BucketAfter(a, b) == a.hour > b.hour \/ (a.hour = b.hour /\ a.minute > b.minute)

\* order of two formatted bucket labels under {"$sort": {"_id": 1}}
BucketBefore(a, b) == a.hour < b.hour \/ (a.hour = b.hour /\ a.minute < b.minute)

RECURSIVE SortBuckets(_)
SortBuckets(buckets) ==
    IF buckets = {} THEN << >>
    ELSE LET first == CHOOSE b \in buckets : \A c \in buckets \ {b} : BucketBefore(b, c)
         IN  <<first>> \o SortBuckets(buckets \ {first})

\* get_sentiment_trends: count per bucket and sentiment, one object of counts
\* per bucket ($arrayToObject), sorted, absent classes filled by $ifNull
get_sentiment_trends(collection, query, time_range) ==
    LET matched == Match(collection, query, time_range)
        bucket(i) == TimeBucket(collection[i].timestamp, time_range)
        sentiments(b) ==
            LET labels == {collection[i].sentiment : i \in {m \in matched : bucket(m) = b}}
            IN  [l \in labels |-> Cardinality({i \in matched : /\ bucket(i) = b
                                                               /\ collection[i].sentiment = l})]
        sorted == SortBuckets({bucket(i) : i \in matched})
    IN  [k \in 1..Len(sorted) |->
            [timestamp |-> sorted[k],
             positive |-> Get(sentiments(sorted[k]), "positive", 0),
             negative |-> Get(sentiments(sorted[k]), "negative", 0),
             neutral |-> Get(sentiments(sorted[k]), "neutral", 0)]]

\* mutant: the distribution of an empty result set is an error
get_sentiment_distribution_nonempty(collection, query, time_range) ==
    LET matched == Match(collection, query, time_range)
        count(l) == Cardinality({i \in matched : collection[i].sentiment = l})
    IN  IF matched = {} THEN [kind |-> "raised", positive |-> 0, negative |-> 0, neutral |-> 0]
        ELSE [kind |-> "SentimentData", positive |-> count("positive"),
              negative |-> count("negative"), neutral |-> count("neutral")]

\* get_sentiment_distribution: count per sentiment; the counts of the three
\* known labels overwrite the zeros of dist, other labels are ignored
get_sentiment_distribution(collection, query, time_range) ==
    LET matched == Match(collection, query, time_range)
        results == [l \in {collection[i].sentiment : i \in matched} |->
                       Cardinality({i \in matched : collection[i].sentiment = l})]
    IN  [kind |-> "SentimentData",
         positive |-> Get(results, "positive", 0),
         negative |-> Get(results, "negative", 0),
         neutral |-> Get(results, "neutral", 0)]

\* {"$unwind": "$analysis.aspects"}: one entry per aspect of a matching document
Unwind(collection, matched) ==
    UNION {{<<i, k>> : k \in 1..Len(collection[i].aspects)} : i \in matched}

\* mutant: the aspect names sorted by ascending count
CloudBeforeAscending(a, b, tie) ==
    a.value < b.value \/ (a.value = b.value /\ (IF tie THEN a.text < b.text ELSE a.text > b.text))

\* {"$sort": {"count": -1}}; the order among equal counts is not specified,
\* tie picks one of two
CloudBefore(a, b, tie) ==
    a.value > b.value \/ (a.value = b.value /\ (IF tie THEN a.text < b.text ELSE a.text > b.text))

RECURSIVE SortCloud(_, _)
SortCloud(rows, tie) ==
    IF rows = {} THEN << >>
    ELSE LET first == CHOOSE a \in rows : \A b \in rows \ {a} : CloudBefore(a, b, tie)
         IN  <<first>> \o SortCloud(rows \ {first}, tie)

\* get_word_cloud_data: unwind, count per aspect name, sort, keep the first 50
get_word_cloud_data(collection, query, time_range, tie) ==
    LET entries == Unwind(collection, Match(collection, query, time_range))
        name(e) == collection[e[1]].aspects[e[2]]
        rows == {[text |-> n, value |-> Cardinality({e \in entries : name(e) = n})] :
                    n \in {name(e) : e \in entries}}
        sorted == SortCloud(rows, tie)
    IN  SubSeq(sorted, 1, IF Len(sorted) < WordCloudLimit THEN Len(sorted) ELSE WordCloudLimit)

\* a stored document: the fields of a SentimentRecord the aggregations read
Document(query, timestamp, sentiment, aspects) ==
    [query |-> query, timestamp |-> timestamp, sentiment |-> sentiment, aspects |-> aspects]

\* the documents drawn: two queries; timestamps now, two minutes ago, two hours
\* ago and more than a day ago; the labels the classifier can give a record
StoreDocument(u) ==
    LET queries == <<"A", "B">>
        timestamps == <<Now, Now - 2, Now - 125, Now - 1500>>
        sentiments == <<basic_analysis(NativePositive).sentiment,
                        basic_analysis(NativeNeutral).sentiment,
                        basic_analysis(NativeRaises).sentiment>>
    IN  Document(queries[(u \div 12) + 1], timestamps[((u \div 3) % 4) + 1],
                 sentiments[(u % 3) + 1], << >>)

\* n documents with one aspect name each, a document naming aspect h twice,
\* one of another query and one older than a day
CloudCollection(n, h) ==
    [k \in 1..n |-> Document("A", Now, "positive", <<k>>)]
    \o <<Document("A", Now - 2, "positive", <<h, h>>),
          Document("B", Now, "positive", <<h>>),
          Document("A", Now - 1500, "positive", <<1>>)>>

StoreUnchanged == UNCHANGED <<env, max_concurrent_llm, source_items, phase, mode,
                              retrieved_items, next_start, tasks, holding, sem_value,
                              sem_waiters, cache, llm_call_count, transformer_call_count,
                              requests, successful_records, saved, run_return, summary,
                              route, comparison, retrieval, concurrent>>

TrendsCall ==
    /\ store.pc = "idle"
    /\ store' = [store EXCEPT !.pc = "trends",
                     !.result = get_sentiment_trends(store.collection, store.query,
                                                     store.time_range)]
    /\ StoreUnchanged

DistributionCall ==
    /\ store.pc = "idle"
    /\ store' = [store EXCEPT !.pc = "distribution",
                     !.result = get_sentiment_distribution(store.collection, store.query,
                                                           store.time_range)]
    /\ StoreUnchanged

WordCloudCall ==
    /\ store.pc = "idle"
    /\ store' = [store EXCEPT !.pc = "cloud",
                     !.result = get_word_cloud_data(store.collection, store.query,
                                                    store.time_range, store.tie)]
    /\ StoreUnchanged

InitStore ==
    /\ InitPipeline(FullEnv, DefaultMaxConcurrentLlm, << >>)
    /\ summary = IdleSummary
    /\ route = IdleRoute
    /\ comparison = IdleComparison
    /\ retrieval = IdleRetrieval
    /\ concurrent = IdleConcurrent
    /\ \E time_range \in {"1h", "24h", "7d"} :
          \/ \E k \in 0..MaxRecords : \E c \in [1..k -> 0..23] :
                 /\ \A i \in 1..(k - 1) : c[i] <= c[i + 1]
                 /\ store = [IdleStore EXCEPT !.collection = [i \in 1..k |-> StoreDocument(c[i])],
                                               !.time_range = time_range]
          \/ \E n \in (0..2) \cup ((MaxAspects - 4)..MaxAspects), tie \in BOOLEAN :
                 \E h \in {1, n, MaxAspects} \ {0} :
                     store = [IdleStore EXCEPT !.collection = CloudCollection(n, h),
                                               !.time_range = time_range, !.tie = tie]

NextStore == TrendsCall \/ DistributionCall \/ WordCloudCall

SpecStore == InitStore /\ [][NextStore]_vars

(***************************************************************************)
(* Storage: MongoManager.get_competitor_trends                             *)
(***************************************************************************)
Subjects == {"A", "B", "C"}

ProductTrend(product, trends) == [product_name |-> product, trends |-> trends]

\* mutant: the results are taken in the order the computations completed
GatherResultsAsCompleted(c) == [k \in 1..Len(c.products) |-> c.returned[c.completed[k]]]

\* asyncio.gather(*tasks): the results in the order of the awaitables
GatherResults(c) == [k \in 1..Len(c.products) |-> c.returned[k]]

\* zip(products, results) into ProductTrend objects
CompetitorTrends(c) ==
    LET results == GatherResults(c)
    IN  [k \in 1..Len(c.products) |-> ProductTrend(c.products[k], results[k])]

CompareUnchanged == UNCHANGED <<env, max_concurrent_llm, source_items, phase, mode,
                                retrieved_items, next_start, tasks, holding, sem_value,
                                sem_waiters, cache, llm_call_count, transformer_call_count,
                                requests, successful_records, saved, run_return, summary,
                                route, store, retrieval, concurrent>>

\* get_competitor_trends up to `await asyncio.gather(*tasks)`: one trend
\* computation per product, each started up to its aggregation
CompetitorTrendsCall ==
    /\ comparison.pc = "call"
    /\ comparison' = [comparison EXCEPT
                          !.pc = "gather",
                          !.state = [k \in 1..Len(comparison.products) |-> "pending"],
                          !.returned = [k \in 1..Len(comparison.products) |-> << >>]]
    /\ CompareUnchanged

\* the aggregation of product k ends, in any order among the products. The
\* first computation that raises makes gather raise; the others keep running
\* and their results are lost. When the last one returns, gather returns.
TrendsComplete(k, raises) ==
    /\ comparison.pc \in {"gather", "raised"}
    /\ k \in DOMAIN comparison.state
    /\ comparison.state[k] = "pending"
    /\ LET c == [comparison EXCEPT
                    !.state[k] = IF raises THEN "failed" ELSE "done",
                    !.returned[k] = IF raises THEN << >>
                                    ELSE get_sentiment_trends(store.collection,
                                                              comparison.products[k],
                                                              comparison.time_range),
                    !.completed = Append(@, k)]
       IN  comparison' =
               IF c.pc = "raised" THEN c
               ELSE IF raises THEN [c EXCEPT !.pc = "raised"]
               ELSE IF \A j \in DOMAIN c.state : c.state[j] = "done"
               THEN [c EXCEPT !.pc = "returned", !.result = CompetitorTrends(c)]
               ELSE c
    /\ CompareUnchanged

InitCompare ==
    /\ InitPipeline(FullEnv, DefaultMaxConcurrentLlm, << >>)
    /\ summary = IdleSummary
    /\ route = IdleRoute
    /\ retrieval = IdleRetrieval
    /\ concurrent = IdleConcurrent
    /\ store = [IdleStore EXCEPT !.collection =
                    <<Document("A", Now, "positive", << >>),
                      Document("A", Now, "positive", << >>),
                      Document("A", Now - 2, "neutral", << >>),
                      Document("B", Now, "negative", << >>),
                      Document("B", Now - 125, "positive", << >>)>>]
    /\ \E n \in 1..MaxProducts, time_range \in {"1h", "24h"} :
          \E products \in [1..n -> Subjects] :
              comparison = [IdleComparison EXCEPT !.pc = "call", !.products = products,
                                                  !.time_range = time_range]

NextCompare ==
    \/ CompetitorTrendsCall
    \/ \E k \in 1..MaxProducts : TrendsComplete(k, FALSE)
    \/ \E k \in 1..MaxProducts : TrendsComplete(k, TRUE)

SpecCompare == InitCompare /\ [][NextCompare]_vars

(***************************************************************************)
(* Two runs on one pipeline: routers.py adds _analysis_pipeline.run as a    *)
(* background task of every request, so runs of different requests          *)
(* interleave at their awaits and share the instance's two counters         *)
(***************************************************************************)
ConcurrentUnchanged == UNCHANGED <<env, max_concurrent_llm, source_items, phase, mode,
                                   retrieved_items, next_start, tasks, holding, sem_value,
                                   sem_waiters, cache, requests, successful_records, saved,
                                   run_return, summary, route, comparison, store, retrieval>>

\* run() of run r up to the await of the retriever: the counters are reset
RunStarts(r) ==
    /\ concurrent.pc = "active"
    /\ concurrent.runs[r].pc = "new"
    /\ llm_call_count' = 0
    /\ transformer_call_count' = 0
    /\ concurrent' = [concurrent EXCEPT !.runs[r].pc = "retrieve"]
    /\ ConcurrentUnchanged

\* the retriever of run r returns: an empty batch ends the run with the
\* statistics _build_stats reads from the counters
RunRetrieved(r) ==
    /\ concurrent.pc = "active"
    /\ concurrent.runs[r].pc = "retrieve"
    /\ concurrent' = IF concurrent.runs[r].items = << >>
                     THEN [concurrent EXCEPT !.runs[r].pc = "ended",
                                             !.runs[r].llm_calls = llm_call_count,
                                             !.runs[r].transformer_calls =
                                                 transformer_call_count]
                     ELSE [concurrent EXCEPT !.runs[r].pc = "analyze"]
    /\ UNCHANGED <<llm_call_count, transformer_call_count>>
    /\ ConcurrentUnchanged

\* the next item task of run r analyses its item and counts the call
ItemAnalysed(r) ==
    /\ concurrent.pc = "active"
    /\ concurrent.runs[r].pc = "analyze"
    /\ LET run == concurrent.runs[r]
           i == run.next
           text == ItemText(run.items[i])
       IN  /\ i <= Len(run.items)
           /\ IF _should_use_llm(text, i - 1, Len(run.items))
              THEN /\ llm_call_count' = llm_call_count + 1
                   /\ UNCHANGED transformer_call_count
                   /\ concurrent' = [concurrent EXCEPT !.runs[r].next = i + 1,
                                                       !.runs[r].remote = @ + 1]
              ELSE /\ transformer_call_count' = transformer_call_count + 1
                   /\ UNCHANGED llm_call_count
                   /\ concurrent' = [concurrent EXCEPT !.runs[r].next = i + 1,
                                                       !.runs[r].local = @ + 1]
    /\ ConcurrentUnchanged

\* gather of run r has returned: the counts of the run are what the counters hold
RunEnds(r) ==
    /\ concurrent.pc = "active"
    /\ concurrent.runs[r].pc = "analyze"
    /\ concurrent.runs[r].next > Len(concurrent.runs[r].items)
    /\ concurrent' = [concurrent EXCEPT !.runs[r].pc = "ended",
                                        !.runs[r].llm_calls = llm_call_count,
                                        !.runs[r].transformer_calls = transformer_call_count]
    /\ UNCHANGED <<llm_call_count, transformer_call_count>>
    /\ ConcurrentUnchanged

InitTwoRuns ==
    /\ InitPipeline(FullEnv, DefaultMaxConcurrentLlm, << >>)
    /\ summary = IdleSummary
    /\ route = IdleRoute
    /\ comparison = IdleComparison
    /\ store = IdleStore
    /\ retrieval = IdleRetrieval
    /\ \E ka, kb \in 0..MaxItems :
           \E a \in [1..ka -> {[text |-> ShortKeywordText], [text |-> LongKeywordText]}],
              b \in [1..kb -> {[text |-> ShortKeywordText], [text |-> LongKeywordText]}] :
               concurrent = [pc |-> "active",
                             runs |-> [r \in 1..2 |->
                                         [pc |-> "new", items |-> IF r = 1 THEN a ELSE b,
                                          next |-> 1, remote |-> 0, local |-> 0,
                                          llm_calls |-> 0, transformer_calls |-> 0]]]

NextTwoRuns ==
    \/ \E r \in 1..2 : RunStarts(r)
    \/ \E r \in 1..2 : RunRetrieved(r)
    \/ \E r \in 1..2 : ItemAnalysed(r)
    \/ \E r \in 1..2 : RunEnds(r)

SpecTwoRuns == InitTwoRuns /\ [][NextTwoRuns]_vars

(***************************************************************************)
(* Properties                                                              *)
(***************************************************************************)
\* item task i was routed to the remote tier
RoutedRemote(i) == tasks[i].tier = "remote" \/ tasks[i].extract # "none" \/ tasks[i].waited
                   \/ tasks[i].pc \in {"acquire", "acquired", "backoff"}
                   \/ tasks[i].hit \/ "remote" \in tasks[i].raised

\* the remote aspect extraction of item task i failed
ExtractFailed(i) == tasks[i].extract \in {"rate_limit", "api_error", "malformed"}

\* C1: a text shorter than 100 characters is routed local, whatever the index,
\* the batch size and the keywords it contains
C1_ShortTextIsLocal ==
    (route.pc = "returned" /\ TextLen(route.text) < 100) => route.decision = FALSE

C1_Witness ==
    /\ route.pc = "returned"
    /\ TextLen(route.text) = 99
    /\ route.index % 3 = 0
    /\ route.text.body \in KeywordBodies
    /\ route.decision = FALSE

TwoCallsInSequence(i, j) ==
    /\ i # j
    /\ ItemText(retrieved_items[i]) = ItemText(retrieved_items[j])
    /\ tasks[i].pc = "done" /\ tasks[i].tier = "remote"
    /\ tasks[j].pc = "done" /\ tasks[j].tier = "remote"
    /\ i \in tasks[j].prior
    /\ \A k \in DOMAIN tasks \ {i, j} :
           ItemText(retrieved_items[k]) = ItemText(retrieved_items[i])
               => tasks[k].pc \in {"created", "acquire", "acquired"} \/ tasks[k].tier = "none"
                  \/ tasks[k].tier = "local"

C5_HitStep(j) ==
    LET key == _get_cache_key(ItemText(retrieved_items[j]))
    IN  (/\ tasks[j].pc \in {"created", "acquired"}
         /\ key \in DOMAIN cache
         /\ tasks'[j].pc = "backoff" \/ tasks'[j].tier = "remote")
            => /\ tasks'[j].pc = "done"
               /\ tasks'[j].result.analysis = cache[key]
               /\ cache' = cache
               /\ requests' = requests
               /\ tasks'[j].log = << >>
               /\ tasks'[j].sentiment_data = NoSentiment
               /\ transformer_call_count' = transformer_call_count

C5_CacheHitFrame ==
    [][phase = "analyze" /\ phase' = "analyze"
          => \A j \in DOMAIN tasks : C5_HitStep(j)]_vars

C5_Witness ==
    \E j \in DOMAIN tasks :
        /\ tasks[j].pc = "done"
        /\ tasks[j].hit
        /\ tasks[j].waited
        /\ tasks[j].result.analysis.aspects # << >>

\* item tasks that own a slot of the governor
InSection == {i \in DOMAIN tasks : tasks[i].pc \in {"acquired", "backoff"}}

\* C6: never more item tasks in the guarded section than the configured bound;
\* the free slots and the tasks in the section add up to the bound, so every
\* slot is given back when its task leaves, by return or by exception, and all
\* slots are free once the item tasks have ended
C6_GovernorBound ==
    /\ Cardinality(InSection) <= max_concurrent_llm
    /\ sem_value >= 0
    /\ sem_value + Cardinality(InSection) = max_concurrent_llm
    /\ phase \in {"persist", "complete"} => sem_value = max_concurrent_llm

C6_Witness ==
    /\ max_concurrent_llm = DefaultMaxConcurrentLlm
    /\ Cardinality(InSection) = DefaultMaxConcurrentLlm
    /\ sem_value = 0
    /\ sem_waiters # << >>

\* C7: every request sent to the remote service, for aspects or for a summary,
\* is sent by a task that holds a governor slot
C7_EveryRequestHoldsSlot == \A r \in requests : r.held

\* C8: one _get_chat_completion call makes at most 3 attempts; an attempt is
\* followed by another only if it was rate-limited; a rate-limited attempt
\* with attempts left is retried; the rate-limit error reaches the caller only
\* after the 3rd attempt, any other error after the attempt it occurred in
C8_RetryPolicy ==
    \A i \in DOMAIN tasks :
        LET log == tasks[i].log
            n == Len(log)
        IN  /\ n <= 3
            /\ \A k \in 1..(n - 1) : log[k].error = "rate_limit"
            /\ tasks[i].pc = "backoff" <=> (n \in 1..2 /\ log[n].error = "rate_limit")
            /\ tasks[i].extract = "rate_limit" => (n = 3 /\ log[3].error = "rate_limit")
            /\ tasks[i].extract = "api_error" => log[n].error = "api_error"
            /\ (n > 0 /\ log[n].error = "api_error") => tasks[i].extract = "api_error"

C8_Witness ==
    \E i, j \in DOMAIN tasks :
        /\ Len(tasks[i].log) = 3
        /\ tasks[i].extract = "rate_limit"
        /\ Len(tasks[j].log) = 1
        /\ tasks[j].extract = "api_error"

\* C9: an item routed remote whose remote call ran out of retries, failed with
\* another error or returned an invalid payload is analyzed by basic_analysis:
\* its record is the local-tier result and the local-call count includes it
C9_FailedRemoteFallsBackToLocal ==
    \A i \in DOMAIN tasks :
        (tasks[i].pc = "done" /\ ExtractFailed(i))
            => /\ tasks[i].tier = "local"
               /\ tasks[i].result.kind = "SentimentRecord"
               /\ tasks[i].result.analysis.intent = "feedback"
               /\ transformer_call_count >= 1

\* C10: the nine-item scenario with exactly one failed remote analysis ends with
\* the items at indices 0, 3, 6 routed remote, 9 records saved, the failed item
\* carrying a local-tier result, remote attempts 3, local results 7, remote
\* results 2
C10_Scenario ==
    (/\ phase = "complete"
     /\ mode = "hybrid"
     /\ retrieved_items = ScenarioBatch
     /\ Cardinality({i \in DOMAIN tasks : ExtractFailed(i)}) = 1)
        => /\ {i \in DOMAIN tasks : RoutedRemote(i)} = {1, 4, 7}
           /\ Len(saved) = 1 /\ Len(saved[1]) = 9
           /\ \A i \in DOMAIN tasks : ExtractFailed(i) => tasks[i].tier = "local"
           /\ llm_call_count = 3
           /\ transformer_call_count = 7
           /\ Cardinality({i \in DOMAIN tasks : tasks[i].tier = "remote"}) = 2

(***************************************************************************)
(* Run-level claims                                                        *)
(***************************************************************************)
\* number of records of the run's storage insert
HandedToStorage == IF saved = << >> THEN 0 ELSE Len(saved[1])

\* the record of item task i is among the records handed to storage
RecordHanded(i) ==
    /\ tasks[i].result.kind = "SentimentRecord"
    /\ saved # << >>
    /\ \E k \in 1..Len(saved[1]) : saved[1][k] = tasks[i].result

\* item tasks of the items without text, and of the items with text whose
\* record cannot be built
EmptyTextItems == {i \in DOMAIN tasks : NoText(retrieved_items[i])}
UnbuildableItems == {i \in DOMAIN tasks : /\ ~NoText(retrieved_items[i])
                                          /\ RecordRaises(retrieved_items[i])}

C12_RunReturnsStatistics ==
    phase = "complete"
        => /\ run_return # None
           /\ run_return.items_retrieved = Len(retrieved_items)
           /\ run_return.items_saved = HandedToStorage
           /\ run_return.llm_calls = llm_call_count
           /\ run_return.transformer_calls = transformer_call_count
           /\ run_return.llm_reduction =
                  _build_stats(HandedToStorage, Len(retrieved_items), mode).llm_reduction

\* C13: an empty retrieval takes run() straight to its end, never through the
\* analysis or the persistence step: the statistics returned are all zero, no
\* item task exists, no request was sent, no slot was taken, the cache is
\* untouched and nothing was inserted
C13_EmptyRetrievalShortCircuits ==
    /\ phase \in {"analyze", "persist"} => retrieved_items # << >>
    /\ (phase = "complete" /\ retrieved_items = << >>)
          => /\ run_return = _build_stats(0, 0, mode)
             /\ run_return.items_retrieved = 0 /\ run_return.items_saved = 0
             /\ run_return.llm_calls = 0 /\ run_return.transformer_calls = 0
             /\ tasks = << >> /\ requests = {} /\ cache = << >>
             /\ holding = {} /\ sem_waiters = << >> /\ sem_value = max_concurrent_llm
             /\ successful_records = << >> /\ saved = << >>

C13_Witness ==
    /\ phase = "complete"
    /\ retrieved_items = << >>
    /\ mode = "llm"
    /\ run_return.items_retrieved = 0
    /\ run_return.llm_reduction = 0

C15_TransformersModeIsLocalOnly ==
    mode = "transformers"
        => /\ requests = {} /\ cache = << >> /\ llm_call_count = 0
           /\ holding = {} /\ sem_waiters = << >> /\ sem_value = max_concurrent_llm
           /\ \A i \in DOMAIN tasks :
                 /\ ~RoutedRemote(i)
                 /\ tasks[i].log = << >>
                 /\ (phase \in {"persist", "complete"} /\ ~NoText(retrieved_items[i])
                       /\ ~RecordRaises(retrieved_items[i]))
                        => /\ tasks[i].tier = "local"
                           /\ tasks[i].result.kind = "SentimentRecord"
                           /\ tasks[i].result.analysis.intent = "feedback"
                           /\ tasks[i].result.analysis.aspects = << >>

C15_Witness ==
    /\ mode = "transformers"
    /\ phase = "complete"
    /\ Len(retrieved_items) = 2
    /\ retrieved_items[1] = [text |-> LongKeywordText]
    /\ \A i \in DOMAIN tasks : tasks[i].tier = "local" /\ RecordHanded(i)
    /\ transformer_call_count = 2

\* C16: in every mode, whichever item tasks raise on a tier, the run reaches
\* its persistence step with every item task ended, and every item with text
\* whose analysis did not raise has its record among the records handed to
\* storage; nothing but the records of the item tasks is handed over
C16_FailureIsolated ==
    /\ phase \in {"persist", "complete"} => \A i \in DOMAIN tasks : tasks[i].pc = "done"
    /\ (phase = "complete" /\ retrieved_items # << >>)
          => /\ \A i \in DOMAIN tasks :
                   (TextLen(ItemText(retrieved_items[i])) > 0 /\ tasks[i].raised = {})
                       => RecordHanded(i)
             /\ HandedToStorage =
                    Cardinality({i \in DOMAIN tasks : tasks[i].result.kind = "SentimentRecord"})

C16_Witness ==
    /\ phase = "complete"
    /\ mode = "hybrid"
    /\ \E i \in DOMAIN tasks, j \in DOMAIN tasks :
         /\ tasks[i].raised = {"remote", "local"}
         /\ tasks[i].result = None
         /\ tasks[j].raised = {}
         /\ tasks[j].tier = "remote"
         /\ RecordHanded(j)
    /\ HandedToStorage = 1

\* C17: an item whose text is empty or missing is dropped before dispatch in
\* every mode: its task makes no engine call, sends no request, never holds or
\* waits for a slot and yields no record, and it moves no counter: each counter
\* is at most the number of items with text
C17_EmptyTextDropped ==
    LET WithText == {i \in DOMAIN tasks : TextLen(ItemText(retrieved_items[i])) > 0}
    IN  /\ \A i \in DOMAIN tasks \ WithText :
              /\ tasks[i].pc \in {"created", "done"}
              /\ tasks[i].result = None /\ tasks[i].tier = "none"
              /\ tasks[i].sentiment_data = NoSentiment
              /\ tasks[i].log = << >> /\ tasks[i].extract = "none"
              /\ ~tasks[i].hit /\ ~tasks[i].waited /\ tasks[i].raised = {}
              /\ i \notin holding
              /\ \A k \in 1..Len(sem_waiters) : sem_waiters[k] # i
              /\ \A r \in requests : r.task # i
        /\ llm_call_count <= Cardinality(WithText)
        /\ transformer_call_count <= Cardinality(WithText)
        /\ HandedToStorage <= Cardinality(WithText)

C17_Witness ==
    /\ phase = "complete"
    /\ mode = "hybrid"
    /\ retrieved_items = <<[source |-> "news"], [text |-> ShortKeywordText]>>
    /\ tasks[1].pc = "done" /\ tasks[1].result = None
    /\ RecordHanded(2)
    /\ llm_call_count = 0 /\ transformer_call_count = 1
    /\ HandedToStorage = 1

C19_ComparisonInInputOrder ==
    comparison.pc = "returned"
        => /\ Len(comparison.result) = Len(comparison.products)
           /\ \A k \in 1..Len(comparison.products) :
                 /\ comparison.result[k].product_name = comparison.products[k]
                 /\ comparison.result[k].trends =
                        get_sentiment_trends(store.collection, comparison.products[k],
                                             comparison.time_range)

C19_Witness ==
    /\ comparison.pc = "returned"
    /\ comparison.products = <<"A", "B", "C">>
    /\ comparison.completed = <<2, 3, 1>>
    /\ comparison.result[1].product_name = "A"
    /\ comparison.result[2].product_name = "B"
    /\ Len(comparison.result[2].trends) = 2

\* C20: when the trend computation of one subject fails, the call still
\* returns, with the trends of every subject whose computation succeeded
C20_OtherSubjectsStillReturned ==
    (/\ comparison.pc \in {"gather", "returned", "raised"}
     /\ \A k \in DOMAIN comparison.state : comparison.state[k] # "pending"
     /\ \E k \in DOMAIN comparison.state : comparison.state[k] = "failed")
        => /\ comparison.pc = "returned"
           /\ \A j \in DOMAIN comparison.state :
                 comparison.state[j] = "done"
                     => \E m \in 1..Len(comparison.result) :
                            comparison.result[m] =
                                ProductTrend(comparison.products[j], comparison.returned[j])

(***************************************************************************)
(* Storage claims                                                          *)
(***************************************************************************)
\* C21: the buckets get_sentiment_trends returns have strictly increasing
\* labels, each carries the three counts, and a class without a matching
\* record in the bucket has count 0
C21_TrendsSortedZeroFilled ==
    store.pc = "trends"
        => LET r == store.result
               matched == Match(store.collection, store.query, store.time_range)
               InBucket(b, class) ==
                   {i \in matched :
                       /\ TimeBucket(store.collection[i].timestamp, store.time_range) = b
                       /\ store.collection[i].sentiment = class}
           IN  /\ \A k \in 1..(Len(r) - 1) :
                     \/ r[k].timestamp.hour < r[k + 1].timestamp.hour
                     \/ /\ r[k].timestamp.hour = r[k + 1].timestamp.hour
                        /\ r[k].timestamp.minute < r[k + 1].timestamp.minute
               /\ \A k \in 1..Len(r) :
                     /\ DOMAIN r[k] = {"timestamp", "positive", "negative", "neutral"}
                     /\ r[k].positive \in Nat /\ r[k].negative \in Nat /\ r[k].neutral \in Nat
                     /\ InBucket(r[k].timestamp, "positive") = {} => r[k].positive = 0
                     /\ InBucket(r[k].timestamp, "negative") = {} => r[k].negative = 0
                     /\ InBucket(r[k].timestamp, "neutral") = {} => r[k].neutral = 0

C21_Witness ==
    /\ store.pc = "trends"
    /\ store.time_range = "24h"
    /\ Len(store.result) = 2
    /\ store.result[1].timestamp.hour < store.result[2].timestamp.hour
    /\ store.result[1].positive = 1 /\ store.result[1].negative = 0
    /\ store.result[2].neutral = 2 /\ store.result[2].positive = 0

\* C22: in every bucket returned by get_sentiment_trends the three counts add
\* up to the number of matching records whose timestamp falls in the bucket
C22_BucketCountsSumToRecords ==
    store.pc = "trends"
        => \A k \in 1..Len(store.result) :
               store.result[k].positive + store.result[k].negative + store.result[k].neutral
                   = Cardinality({i \in Match(store.collection, store.query, store.time_range) :
                                     TimeBucket(store.collection[i].timestamp, store.time_range)
                                         = store.result[k].timestamp})

\* C23: the buckets returned by get_sentiment_trends are contiguous: each
\* bucket is one granularity step (a minute for '1h', an hour otherwise) after
\* the bucket before it
C23_BucketsContiguous ==
    store.pc = "trends"
        => \A k \in 1..(Len(store.result) - 1) :
               LET minutes(b) == b.hour * HourMinutes + b.minute
               IN  minutes(store.result[k + 1].timestamp) - minutes(store.result[k].timestamp)
                       = IF store.time_range = "1h" THEN 1 ELSE HourMinutes

\* C24: get_sentiment_distribution over a store without a record matching the
\* query and the window returns positive 0, negative 0, neutral 0 and does not
\* raise
C24_EmptyDistributionIsZero ==
    (/\ store.pc = "distribution"
     /\ \A i \in 1..Len(store.collection) :
            \/ store.collection[i].query # store.query
            \/ store.collection[i].timestamp < get_time_range_filter(store.time_range))
        => /\ store.result.kind = "SentimentData"
           /\ store.result.positive = 0
           /\ store.result.negative = 0
           /\ store.result.neutral = 0

C24_Witness ==
    /\ store.pc = "distribution"
    /\ store.time_range = "24h"
    /\ Len(store.collection) = 2
    /\ store.collection[1].query = "A" /\ store.collection[1].timestamp = Now - 1500
    /\ store.collection[2].query = "B" /\ store.collection[2].timestamp = Now
    /\ store.result.kind = "SentimentData"
    /\ store.result.positive + store.result.negative + store.result.neutral = 0

\* C25: get_word_cloud_data returns the 50 most frequent aspect names, or all
\* if there are fewer: each entry's value is the number of occurrences of its
\* name in the aspect lists of the matching records, no name is returned twice,
\* the values do not increase along the list, and no omitted name occurs more
\* often than a returned one
C25_WordCloudTopByFrequency ==
    store.pc = "cloud"
        => LET r == store.result
               entries == Unwind(store.collection,
                                 Match(store.collection, store.query, store.time_range))
               name(e) == store.collection[e[1]].aspects[e[2]]
               names == {name(e) : e \in entries}
               occurrences(n) == Cardinality({e \in entries : name(e) = n})
               returned == {r[k].text : k \in 1..Len(r)}
           IN  /\ Len(r) <= WordCloudLimit
               /\ Cardinality(names) <= WordCloudLimit => returned = names
               /\ Cardinality(names) > WordCloudLimit => Len(r) = WordCloudLimit
               /\ Cardinality(returned) = Len(r)
               /\ \A k \in 1..Len(r) : /\ r[k].text \in names
                                        /\ r[k].value = occurrences(r[k].text)
               /\ \A k \in 1..(Len(r) - 1) : r[k].value >= r[k + 1].value
               /\ \A n \in names \ returned :
                     \A k \in 1..Len(r) : occurrences(n) <= r[k].value

C25_Witness ==
    /\ store.pc = "cloud"
    /\ Len(store.collection) = MaxAspects + 3
    /\ Len(store.result) = WordCloudLimit
    /\ store.result[1] = [text |-> MaxAspects, value |-> 3]
    /\ store.result[WordCloudLimit].value = 1

(***************************************************************************)
(* Retrieval claim                                                         *)
(***************************************************************************)
\* C26: retrieve never raises, whatever sources fail or lack credentials; it
\* returns a list to which a failing source contributes nothing and which has
\* the items of every other source
C26_RetrieveNeverRaises ==
    /\ retrieval.pc # "raised"
    /\ retrieval.pc = "returned"
          => LET Items(source) == {k \in 1..Len(retrieval.final_data) :
                                      retrieval.final_data[k] = source}
                 Lists(source) == {t \in DOMAIN retrieval.tasks :
                                      /\ retrieval.tasks[t] = source
                                      /\ retrieval.results[t].items = <<source>>}
             IN  /\ Cardinality(Items("Google News")) = retrieval.news
                 /\ \A source \in {"Reddit", "Twitter", "YouTube", "WebApp"} :
                       Cardinality(Items(source)) = Cardinality(Lists(source))

(***************************************************************************)
(* Analysis-result claims                                                  *)
(***************************************************************************)
\* C27: the local classifier always returns a label among positive, negative
\* and neutral, an internal error giving neutral with score 0.5; so every
\* record built by basic_analysis or analyze_text has such a sentiment
C27_SentimentInVocabulary ==
    \A i \in DOMAIN tasks :
        /\ tasks[i].sentiment_data.label \in {"", "positive", "negative", "neutral"}
        /\ tasks[i].result.kind = "SentimentRecord"
              => tasks[i].result.analysis.sentiment \in {"positive", "negative", "neutral"}

\* C28: a record of the local path has no aspects and the constant intent
\* 'feedback'; a record has aspects only if it comes from the remote path and
\* an aspect extraction for its text returned a parsed answer
C28_AspectsOnlyFromRemote ==
    \A i \in DOMAIN tasks :
        tasks[i].result.kind = "SentimentRecord"
            => /\ tasks[i].tier = "local"
                    => /\ tasks[i].result.analysis.aspects = << >>
                       /\ tasks[i].result.analysis.intent = "feedback"
               /\ tasks[i].result.analysis.aspects # << >>
                    => /\ tasks[i].tier = "remote"
                       /\ \E j \in DOMAIN tasks :
                              /\ ItemText(retrieved_items[j]) = ItemText(retrieved_items[i])
                              /\ tasks[j].log # << >>
                              /\ tasks[j].log[Len(tasks[j].log)].error = "none"
                              /\ ~ParseAspects(tasks[j].log[Len(tasks[j].log)].payload).raised

C28_Witness ==
    /\ phase = "complete"
    /\ mode = "hybrid"
    /\ Len(retrieved_items) = 2
    /\ tasks[1].tier = "remote" /\ tasks[1].result.analysis.aspects # << >>
    /\ tasks[2].tier = "local" /\ tasks[2].result.analysis.aspects = << >>
    /\ tasks[2].result.analysis.intent = "feedback"
    /\ RecordHanded(1) /\ RecordHanded(2)

\* C30: within one run the phases follow the order retrieve, analyze, persist,
\* complete (an empty batch goes from retrieve to complete); the retriever's
\* batch is taken once, in the step that leaves the retrieve phase, and no item
\* task moves before it; the bulk insert happens at most once, in the step
\* from persist to complete, with every item task ended and at least one
\* record, and it is skipped when no record survived
C30_PhasesInOrder ==
    [][/\ phase' # phase
            => <<phase, phase'>> \in {<<"idle", "retrieve">>, <<"retrieve", "analyze">>,
                                      <<"retrieve", "complete">>, <<"analyze", "persist">>,
                                      <<"persist", "complete">>}
       /\ (retrieved_items' # retrieved_items \/ (tasks = << >> /\ tasks' # << >>))
            => phase = "retrieve" /\ phase' # "retrieve"
       /\ phase \in {"idle", "retrieve"}
            => /\ tasks = << >> /\ requests = {} /\ successful_records = << >>
               /\ llm_call_count' = 0 /\ transformer_call_count' = 0
       /\ (tasks # << >> /\ tasks' # tasks) => phase = "analyze"
       /\ saved' # saved
            => /\ phase = "persist" /\ phase' = "complete"
               /\ saved = << >>
               /\ successful_records # << >>
               /\ saved' = <<successful_records>>
               /\ \A i \in DOMAIN tasks : tasks[i].pc = "done"
       /\ (phase = "persist" /\ successful_records = << >>) => saved' = saved
       /\ phase = "complete" => saved' = saved /\ phase' = phase]_vars

C30_Witness ==
    /\ phase = "complete"
    /\ mode = "llm"
    /\ Len(retrieved_items) = 2
    /\ max_concurrent_llm = 1
    /\ tasks[2].waited
    /\ \A i \in DOMAIN tasks : tasks[i].pc = "done"
    /\ Len(saved) = 1
    /\ Len(saved[1]) = 2

C31_InsertFailureIsSwallowed ==
    /\ phase # "raised"
    /\ store.pc # "raised"
    /\ store.pc = "error_logged"
          => /\ phase = "complete"
             /\ run_return = None
             /\ saved = <<successful_records>>
             /\ store.collection = << >>

C31_Witness ==
    /\ phase = "complete"
    /\ store.pc = "error_logged"
    /\ Len(saved) = 1
    /\ Len(saved[1]) = 2
    /\ mode = "hybrid"

\* C32: a remote aspects payload that does not match the fixed structure (no
\* object with an 'aspects' array, or an entry lacking one of aspect,
\* sentiment, quote) is rejected as a whole: it is not retried, no aspect of
\* it reaches the record, and the item falls back to the local tier
C32_MalformedPayloadRejected ==
    \A i \in DOMAIN tasks :
        LET log == tasks[i].log
            last == log[Len(log)]
            entries == Get(last.payload.data, "aspects", << >>)
            matches == /\ last.payload.parses
                       /\ "aspects" \in DOMAIN last.payload.data
                       /\ \A k \in 1..Len(entries) :
                              DOMAIN entries[k] = {"aspect", "sentiment", "quote"}
        IN  (/\ tasks[i].pc = "done"
             /\ ~tasks[i].hit
             /\ log # << >>
             /\ last.error = "none"
             /\ ~matches)
                => /\ \A k \in 1..(Len(log) - 1) : log[k].error = "rate_limit"
                   /\ tasks[i].result.kind = "SentimentRecord"
                        => /\ tasks[i].result.analysis.aspects = << >>
                           /\ tasks[i].tier = "local"

\* C33: while an item task sleeps in a backoff, every other task that holds a
\* governor slot can take its next step, and that step leaves the sleeping
\* task as it is: the sleep suspends only the retrying task
C33_BackoffSuspendsOnlyRetrier ==
    /\ [](\A i, j \in DOMAIN tasks :
             (phase = "analyze" /\ i # j /\ tasks[i].pc = "backoff" /\ j \in holding)
                 => ENABLED (TaskResume(j) \/ BackoffWake(j)))
    /\ [][\A i, j \in DOMAIN tasks :
             (i # j /\ tasks[i].pc = "backoff" /\ (TaskResume(j) \/ BackoffWake(j)))
                 => tasks'[i] = tasks[i]]_vars

C33_Witness ==
    /\ max_concurrent_llm = 2
    /\ Len(retrieved_items) = 2
    /\ tasks[1].pc = "backoff" /\ Len(tasks[1].log) = 1 /\ 1 \in holding
    /\ tasks[2].pc = "done" /\ tasks[2].tier = "remote" /\ Len(tasks[2].log) = 2
    /\ 2 \notin holding

\* C34: local-tier analysis never waits on the governor: an item routed local
\* ends in the first step of its task, whatever the slots, without having
\* queued for or taken a slot or issued a request; an item whose remote
\* analysis raised is analysed locally with its slot released; slots are
\* held only by tasks inside the guarded section
C34_LocalNeverWaits ==
    /\ \A i \in DOMAIN tasks :
          LET item == retrieved_items[i]
              routed_local == /\ ~NoText(item)
                              /\ ~_should_use_llm(ItemText(item), i - 1, Len(retrieved_items))
          IN  /\ (ModeUsesTasks(mode) /\ routed_local /\ i < next_start)
                    => /\ tasks[i].pc = "done"
                       /\ ~tasks[i].waited
                       /\ tasks[i].log = << >>
                       /\ tasks[i].tier = "local" \/ tasks[i].raised = {"local"}
              /\ (tasks[i].tier = "local" \/ "local" \in tasks[i].raised)
                    => tasks[i].pc = "done" /\ i \notin holding
              /\ i \in holding => tasks[i].pc \in {"acquired", "backoff"}
    /\ sem_value + Cardinality(holding) = max_concurrent_llm

C34_Witness ==
    /\ phase = "analyze"
    /\ max_concurrent_llm = 1
    /\ sem_value = 0
    /\ Len(retrieved_items) = 2
    /\ tasks[1].pc = "backoff" /\ holding = {1}
    /\ tasks[2].pc = "done" /\ tasks[2].tier = "local" /\ ~tasks[2].waited
    /\ transformer_call_count = 1

\* C35: when item tasks analyse the same text concurrently and miss the cache,
\* each may issue the remote extraction; every analyze_text that ends after a
\* miss writes its own complete result under the text's key and leaves the
\* other keys alone, so the entry is the result of the later writer; a cache
\* hit returns the entry as it is, without a request and without a write
C35_CacheRaceKeepsLaterWriter ==
    /\ [](\A i \in DOMAIN tasks :
             (tasks[i].pc = "done" /\ tasks[i].tier = "remote")
                 => LET key == _get_cache_key(ItemText(retrieved_items[i]))
                    IN  /\ key \in DOMAIN cache
                        /\ \E j \in DOMAIN tasks :
                               /\ ItemText(retrieved_items[j]) = ItemText(retrieved_items[i])
                               /\ tasks[j].pc = "done" /\ ~tasks[j].hit
                               /\ tasks[j].tier = "remote"
                               /\ cache[key] = tasks[j].result.analysis)
    /\ [][\A i \in DOMAIN tasks :
             (tasks[i].pc # "done" /\ tasks'[i].pc = "done" /\ tasks'[i].tier = "remote")
                 => LET key == _get_cache_key(ItemText(retrieved_items[i]))
                    IN  IF tasks'[i].hit
                        THEN /\ cache' = cache
                             /\ requests' = requests
                             /\ tasks'[i].result.analysis = cache[key]
                        ELSE /\ DOMAIN cache' = DOMAIN cache \cup {key}
                             /\ \A k \in DOMAIN cache : k # key => cache'[k] = cache[k]
                             /\ cache'[key] = tasks'[i].result.analysis
                             /\ cache'[key].sentiment = tasks'[i].sentiment_data.label
                             /\ tasks'[i].extract # "ok" => cache'[key].aspects = << >>]_vars

C35_Witness ==
    /\ max_concurrent_llm = 2
    /\ retrieved_items = <<[text |-> LongKeywordText], [text |-> LongKeywordText]>>
    /\ tasks[1].pc = "done" /\ tasks[2].pc = "done"
    /\ ~tasks[1].hit /\ ~tasks[2].hit
    /\ tasks[1].log = <<AttemptRateLimit, AttemptOk(PayloadAspects)>>
    /\ tasks[2].log = <<AttemptApiError>>
    /\ Cardinality(requests) = 2
    /\ DOMAIN cache = {_get_cache_key(LongKeywordText)}
    /\ cache[_get_cache_key(LongKeywordText)] = tasks[1].result.analysis
    /\ tasks[1].result.analysis # tasks[2].result.analysis

C37_CountsArePerRun ==
    concurrent.pc = "active"
        => \A r \in DOMAIN concurrent.runs :
               concurrent.runs[r].pc = "ended"
                   => /\ concurrent.runs[r].llm_calls = concurrent.runs[r].remote
                      /\ concurrent.runs[r].transformer_calls = concurrent.runs[r].local

\* C38: llm_call_count is incremented exactly once for every item routed remote
\* whose analyze_text call returned, also when the result came from the cache
\* (no request sent) and when the aspect extraction failed (empty aspects): it
\* counts remote-routed items, not requests
C38_LlmCountIsRemoteItems ==
    phase \in {"analyze", "persist", "complete"}
        => llm_call_count =
               Cardinality({i \in DOMAIN tasks :
                               /\ tasks[i].pc = "done"
                               /\ \/ tasks[i].hit
                                  \/ tasks[i].extract \in {"ok", "rate_limit", "api_error",
                                                           "malformed"}})

C38_Witness ==
    /\ phase = "complete"
    /\ Len(retrieved_items) = 2
    /\ tasks[1].extract = "api_error" /\ tasks[1].result.analysis.aspects = << >>
    /\ tasks[2].hit /\ tasks[2].log = << >>
    /\ Cardinality(requests) = 1
    /\ llm_call_count = 2

\* item task i ends in this step with an analyze_text that missed the cache
C39_Writes(i) ==
    /\ tasks[i].pc # "done" /\ tasks'[i].pc = "done"
    /\ ~tasks'[i].hit
    /\ tasks'[i].extract \in {"ok", "rate_limit", "api_error", "malformed"}

\* what C39 says of every step, apart from how long a failed entry stays
C39_Common ==
    /\ \A i \in DOMAIN tasks :
          LET key == _get_cache_key(ItemText(retrieved_items[i]))
          IN  /\ (C39_Writes(i) /\ tasks'[i].extract # "ok")
                    => key \in DOMAIN cache' /\ cache'[key].aspects = << >>
              /\ (tasks[i].pc # "done" /\ tasks'[i].hit)
                    => /\ key \in DOMAIN cache
                       /\ tasks'[i].result.kind = "SentimentRecord"
                             => tasks'[i].result.analysis = cache[key]
                       /\ requests' = requests
                       /\ cache' = cache
    /\ (\E key \in DOMAIN cache : key \notin DOMAIN cache')
          => cache' = << >> /\ tasks' = tasks /\ requests' = requests

\* C39 as stated: after analyze_text(X) ended with a failed extraction the
\* cache holds an empty-aspect result for X, and that entry stays and is what a
\* later analyze_text(X) returns, without a request, until clear_cache; no
\* other operation removes a key
C39_FailedEntryStays ==
    [][/\ C39_Common
       /\ \A key \in DOMAIN cache :
             (cache[key].aspects = << >> /\ cache' # << >>) => cache'[key] = cache[key]]_vars

\* C39 amended: the empty-aspect entry of a failed extraction stays until
\* clear_cache or until an analyze_text(X) that had missed the cache before
\* ends and writes its own result; a later analyze_text(X) returns the entry
\* of that moment without a request; no other operation removes a key
C39_FailedEntryStaysUntilOverwritten ==
    [][/\ C39_Common
       /\ \A key \in DOMAIN cache :
             (cache[key].aspects = << >> /\ cache' # << >> /\ cache'[key] # cache[key])
                 => \E i \in DOMAIN tasks :
                        /\ C39_Writes(i)
                        /\ _get_cache_key(ItemText(retrieved_items[i])) = key
                        /\ tasks[i].log # << >>]_vars

C39_Witness ==
    /\ max_concurrent_llm = 1
    /\ retrieved_items = <<[text |-> LongKeywordText], [text |-> LongKeywordText]>>
    /\ tasks[1].pc = "done" /\ tasks[1].extract = "rate_limit" /\ Len(tasks[1].log) = 3
    /\ tasks[2].pc = "done" /\ tasks[2].hit /\ tasks[2].waited
    /\ tasks[2].result.analysis.aspects = << >>
    /\ cache[_get_cache_key(LongKeywordText)].aspects = << >>
    /\ Cardinality(requests) = 1

\* C40: an item task keeps its governor slot for its whole remote analysis,
\* every retry attempt and every backoff sleep included; when as many tasks as
\* the bound are in backoff no slot is free, and no other item task enters the
\* guarded section or sends a request before one of them has ended
C40_SlotKeptThroughBackoff ==
    /\ [](/\ \A i \in DOMAIN tasks :
               /\ tasks[i].pc = "backoff" => i \in holding
               /\ (tasks[i].log # << >> /\ tasks[i].pc # "done") => i \in holding
          /\ \A r \in requests : (r.purpose = "aspects" => r.held)
          /\ (Cardinality({k \in DOMAIN tasks : tasks[k].pc = "backoff"})
                  = max_concurrent_llm) => sem_value = 0)
    /\ [][(Cardinality({k \in DOMAIN tasks : tasks[k].pc = "backoff"}) = max_concurrent_llm)
             => \/ \E i \in DOMAIN tasks : tasks[i].pc = "backoff" /\ tasks'[i].pc = "done"
                \/ /\ holding' = holding
                   /\ \A r \in requests' \ requests : tasks[r.task].pc = "backoff"
                   /\ \A j \in DOMAIN tasks :
                         tasks[j].pc # "backoff"
                            => /\ tasks'[j].log = tasks[j].log
                               /\ tasks'[j].tier # "remote" \/ tasks[j].tier = "remote"]_vars

C40_Witness ==
    /\ max_concurrent_llm = 1
    /\ Len(retrieved_items) = 2
    /\ tasks[1].pc = "backoff" /\ Len(tasks[1].log) = 2
    /\ holding = {1}
    /\ sem_value = 0
    /\ tasks[2].pc = "acquire"
    /\ sem_waiters = <<2>>

====
